---- MODULE Spec2Model ----
(***************************************************************************)
(* A model of SJP, the Simple-JSON-Parser: the character cursor            *)
(* (get_char, unget_char, peek_char), the recursive-descent productions    *)
(* of sjp::Parser, the value tree (JsonObject, JsonArray, the leaves, the  *)
(* JsonNone sentinel) with its indexing and printing, and the logger the   *)
(* parser reports to.                                                      *)
(*                                                                         *)
(* A character is a one-character string; EOF is the end-of-input marker.  *)
(* A stream, a token, a string value and the printed text are sequences of *)
(* characters.  A size_t is an integer; a negative integer v stands for    *)
(* the wrapped value 2^64 + v, so that ++ and -- are +1 and -1.            *)
(***************************************************************************)
EXTENDS Integers, Sequences, FiniteSets, TLC

\* ------------------------------------------------------------ characters

EOF == "EOF"
NL == "\n"
TAB == "\t"
CR == "\r"
FF == "\f"
BS == "<BS>"
QUOTE == "\""
BSLASH == "\\"

DigitChars == <<"0", "1", "2", "3", "4", "5", "6", "7", "8", "9">>

is_digit(c) == \E i \in 1..10 : DigitChars[i] = c

\* c - '0' for a digit c
DigitVal(c) == (CHOOSE i \in 1..10 : DigitChars[i] = c) - 1

\* is_whitespace without the carriage return
is_whitespace_no_cr(c) == c = " " \/ c = TAB \/ c = NL

is_whitespace(c) == c = " " \/ c = TAB \/ c = NL \/ c = CR

\* valid_in_number without the sign
valid_in_number_unsigned(c) == is_digit(c)

valid_in_number(c) == is_digit(c) \/ c = "-"

\* unsigned a > b on size_t values (a negative integer is a wrapped value)
USizeGreater(a, b) ==
    IF (a < 0) = (b < 0) THEN a > b ELSE a < 0

\* ------------------------------------------------- the parser's own state

\* struct cursor, as default-initialised
NewCursor == [char_no |-> 0, line_no |-> 1, prev_line_len |-> 0]

\* Parser(FILE*, const Logger*) over a stream holding the characters `data`.
\* in_stream is the stream (its content and read offset); warns, logs and err
\* are what the logger has been told (err # "" : error() was called, which
\* exits the process, so nothing after it has any effect).  trace and returns
\* are history: what every get_char and unget_char left behind, and the
\* characters every production had taken in when it returned.
NewParser(data) ==
    [in_stream |-> [data |-> data, pos |-> 0],
     unget_queue |-> <<>>,
     cursor |-> NewCursor,
     warns |-> <<>>,
     logs |-> 0,
     err |-> "",
     news |-> <<>>,
     deletes |-> <<>>,
     trace |-> <<>>,
     returns |-> <<>>]

Exited(p) == p.err # ""

\* The nodes the process has allocated with `new` (news) and freed with
\* `delete` (deletes), in order, are kept with the parser; a node is named by
\* its type and the position it was constructed with.
NodeId(node) == [type |-> node.type, line_no |-> node.line_no, char_no |-> node.char_no]

\* new JsonX(line_no, char_no)
operator_new(p, node) ==
    IF Exited(p) THEN p ELSE [p EXCEPT !.news = Append(@, NodeId(node))]

\* delete node
operator_delete(p, node) ==
    IF Exited(p) THEN p ELSE [p EXCEPT !.deletes = Append(@, NodeId(node))]

\* a warn that reports nothing
warn_dropped(p, what) == p

\* logger->warn(...)
warn(p, what) == IF Exited(p) THEN p ELSE [p EXCEPT !.warns = Append(@, what)]

\* logger->log(...)
log(p) == IF Exited(p) THEN p ELSE [p EXCEPT !.logs = @ + 1]

\* logger->error(...): [[noreturn]], the process exits
error(p, what) == IF Exited(p) THEN p ELSE [p EXCEPT !.err = what]

\* a new line that keeps the column of the line before it
increment_line_keep_column(cur) ==
    [line_no |-> cur.line_no + 1, prev_line_len |-> cur.char_no, char_no |-> cur.char_no]

increment_line(cur) ==
    [line_no |-> cur.line_no + 1, prev_line_len |-> cur.char_no, char_no |-> 0]

correct_for_reporting(cur, c) ==
    IF c = NL
    THEN [cur EXCEPT !.line_no = @ - 1, !.char_no = cur.prev_line_len]
    ELSE cur

\* ------------------------------------------------------------ the cursor
\* A function of the code that reads a character and goes on with it
\* (`char c = get_char(); if (c ...)`) is written as two operators: the second
\* takes what the first obtained.

\* a bookkeeping that counts the end of input as one more character, wherever
\* it stands
get_char_cursor_plain(cur, c) ==
    IF c = NL THEN increment_line(cur) ELSE [cur EXCEPT !.char_no = @ + 1]

\* the cursor bookkeeping that ends get_char, for the character c it returns
get_char_cursor(cur, c) ==
    IF c = NL THEN increment_line(cur)
    ELSE IF c = EOF /\ cur.char_no = 0
    THEN [cur EXCEPT !.line_no = IF USizeGreater(cur.line_no, 1) THEN cur.line_no - 1 ELSE 1]
    ELSE [cur EXCEPT !.char_no = @ + 1]

\* the parser as get_char (op "get") or unget_char (op "unget") leaves it, for
\* the character c taken from src or put back; ended: get_char has returned
\* the end of input by then
Snapshot(p, op, c, src) ==
    [op |-> op, c |-> c, src |-> src, cursor |-> p.cursor, pos |-> p.in_stream.pos,
     unget_queue |-> p.unget_queue,
     ended |-> \/ (op = "get" /\ c = EOF)
               \/ (p.trace # <<>> /\ p.trace[Len(p.trace)].ended)]

traced(p, op, c, src) == [p EXCEPT !.trace = Append(@, Snapshot(p, op, c, src))]

\* get_char once c has been taken from src (the queue or the stream), leaving p1
get_char_read(p1, c, src) ==
    [p |-> traced([p1 EXCEPT !.cursor = get_char_cursor(@, c)], "get", c, src), c |-> c]

\* The bytes of the stream from 128 on, by their value; every other character
\* of the model is a byte below 128.
BYTE_80 == "<80>"

BYTE_FF == "<FF>"

HighBytes == (BYTE_80 :> 128) @@ (BYTE_FF :> 255)

\* the value of byte b (0..255) in a signed 8-bit char
SignedChar(b) == ((b + 128) % 256) - 128

\* `char c; fread(&c, 1, 1, in_stream)`: the byte as the char get_char goes on
\* with.  A char of value -1 is what `c == EOF` holds for, the EOF of the
\* model; a byte below 128 keeps its value.
char_of_byte(b) ==
    IF b \in DOMAIN HighBytes /\ SignedChar(HighBytes[b]) = -1 THEN EOF ELSE b

\* get_char: the parser afterwards and the character returned
get_char(p) ==
    IF Exited(p) THEN [p |-> p, c |-> EOF]
    ELSE IF Len(p.unget_queue) > 0
    THEN get_char_read([p EXCEPT !.unget_queue = Tail(@)], Head(p.unget_queue), "queue")
    ELSE IF p.in_stream.pos < Len(p.in_stream.data)
    THEN get_char_read([p EXCEPT !.in_stream.pos = @ + 1],
                       char_of_byte(p.in_stream.data[p.in_stream.pos + 1]), "stream")
    ELSE get_char_read(p, EOF, "stream")

eat_char(p) == get_char(p).p

\* an unget that leaves the line number where the newline put it
unget_char_cursor_same_line(cur, c) ==
    IF c = NL THEN [cur EXCEPT !.char_no = cur.prev_line_len]
    ELSE IF c = EOF /\ cur.char_no = 0 THEN [cur EXCEPT !.line_no = @ + 1]
    ELSE [cur EXCEPT !.char_no = @ - 1]

\* the cursor bookkeeping of unget_char
unget_char_cursor(cur, c) ==
    IF c = NL THEN [cur EXCEPT !.char_no = cur.prev_line_len, !.line_no = @ - 1]
    ELSE IF c = EOF /\ cur.char_no = 0 THEN [cur EXCEPT !.line_no = @ + 1]
    ELSE [cur EXCEPT !.char_no = @ - 1]

unget_char(p, c) ==
    IF Exited(p) THEN p
    ELSE traced([p EXCEPT !.unget_queue = Append(@, c),
                          !.cursor = unget_char_cursor(@, c)],
                "unget", c, "queue")

\* the `while (n--)` loop of peek_char: n characters into local_queue
RECURSIVE peek_get(_, _, _)
peek_get_push(g, n, local_queue) == peek_get(g.p, n - 1, Append(local_queue, g.c))

peek_get(p, n, local_queue) ==
    IF n = 0 THEN [p |-> p, local_queue |-> local_queue]
    ELSE peek_get_push(get_char(p), n, local_queue)

\* the `for (char c: local_queue) unget_char(c)` loop of peek_char
RECURSIVE peek_unget(_, _)
peek_unget(p, local_queue) ==
    IF local_queue = <<>> THEN p
    ELSE peek_unget(unget_char(p, Head(local_queue)), Tail(local_queue))

\* peek_char from its for loop on
peek_char_return(got) ==
    [p |-> peek_unget(got.p, got.local_queue),
     c |-> got.local_queue[Len(got.local_queue)]]

\* a peek that reads one character more than it was asked for
peek_char_return_nth(got, n) ==
    [p |-> peek_unget(got.p, got.local_queue), c |-> got.local_queue[n]]

peek_char_one_more(p, n) ==
    IF Exited(p) THEN [p |-> p, c |-> EOF]
    ELSE peek_char_return_nth(peek_get(p, n + 1, <<>>), n)

\* peek_char: the parser afterwards and the character returned
peek_char(p, n) ==
    IF Exited(p) THEN [p |-> p, c |-> EOF]
    ELSE peek_char_return(peek_get(p, n, <<>>))

\* match_char after `char c = get_char()`
match_char_check(g, e) ==
    IF g.c # e
    THEN error([g.p EXCEPT !.cursor = correct_for_reporting(@, g.c)], "expected char")
    ELSE g.p

\* a match_char that takes the character without comparing it
match_char_unchecked(p, e) == eat_char(p)

match_char(p, e) == IF Exited(p) THEN p ELSE match_char_check(get_char(p), e)

\* the for loop of match_string from s[i] on, and the error after it
RECURSIVE match_string_from(_, _, _)
\* a match_string that compares nothing
match_string_check_any(g, s, i) == match_string_from(g.p, s, i + 1)

match_string_check(g, s, i) ==
    IF g.c = s[i] THEN match_string_from(g.p, s, i + 1)
    ELSE error(g.p, "invalid literal")

match_string_from(p, s, i) ==
    IF Exited(p) \/ i > Len(s) THEN p ELSE match_string_check(get_char(p), s, i)

match_string(p, s) == match_string_from(p, s, 1)

RECURSIVE ws(_)
\* the body of the while loop of ws, pk being its peek_char()
ws_while(pk) ==
    IF pk.c # EOF /\ is_whitespace(pk.c) THEN ws(eat_char(pk.p)) ELSE pk.p

ws(p) == ws_while(peek_char(p, 1))

\* ------------------------------------------------------------- numbers
\* A size_t that is multiplied (frac_size) keeps its 64 bits: four 16-bit
\* limbs, least significant first.

U64One == <<1, 0, 0, 0>>

U64Zero == <<0, 0, 0, 0>>

\* frac_size *= 10, modulo 2^64
U64Mul10(u) ==
    LET a1 == u[1] * 10
        a2 == u[2] * 10 + (a1 \div 65536)
        a3 == u[3] * 10 + (a2 \div 65536)
        a4 == u[4] * 10 + (a3 \div 65536)
    IN <<a1 % 65536, a2 % 65536, a3 % 65536, a4 % 65536>>

RECURSIVE U64Pow10(_)
U64Pow10(k) == IF k = 0 THEN U64One ELSE U64Mul10(U64Pow10(k - 1))

\* the powers of ten a size_t holds: 10^0 .. 10^19
U64Pow10Table == [k \in 0..19 |-> U64Pow10(k)]

\* k when u = 10^k, and -1 when u is no power of ten
U64Log10(u) ==
    IF \E k \in 0..19 : U64Pow10Table[k] = u
    THEN CHOOSE k \in 0..19 : U64Pow10Table[k] = u
    ELSE -1

\* A double is the real (-1)^neg * m * 10^e / den, kept in one form: m has no
\* trailing zero (m = 0 has e = 0) and den is 1 unless the divisor was no power
\* of ten.  Binary rounding is not modelled: the numerals of the model are
\* short, so every magnitude is far below 2^53.
RECURSIVE DoubleNorm(_)
DoubleNorm(d) ==
    IF d.m = 0 THEN [d EXCEPT !.e = 0]
    ELSE IF d.m % 10 = 0 THEN DoubleNorm([d EXCEPT !.m = @ \div 10, !.e = @ + 1])
    ELSE d

\* the double holding the integer n >= 0
DoubleOf(n) == DoubleNorm([neg |-> FALSE, m |-> n, e |-> 0, den |-> U64One])

\* d / static_cast<double>(frac_size), for d an integer-valued double
DoubleDiv(d, frac_size) ==
    LET k == U64Log10(frac_size)
    IN IF k >= 0 THEN DoubleNorm([d EXCEPT !.e = @ - k])
       ELSE [d EXCEPT !.den = frac_size]

\* d * exp10(expo)
DoubleMulExp10(d, expo) == DoubleNorm([d EXCEPT !.e = @ + expo])

\* d * -1
DoubleNeg(d) == [d EXCEPT !.neg = ~@]

\* ----------------------------------------------------------- value tree

\* static sjp::JsonNone default_json_none(0, 0)
default_json_none == [type |-> "None", line_no |-> 0, char_no |-> 0]

\* a nullptr JsonValue*
NoValue == [type |-> "nullptr"]

EmptyMap == [k \in {} |-> NoValue]

JsonObject(l, c) ==
    [type |-> "Object", line_no |-> l, char_no |-> c,
     values |-> EmptyMap, names_in_order |-> <<>>]

JsonArray(l, c) == [type |-> "Array", line_no |-> l, char_no |-> c, values |-> <<>>]

JsonString(l, c) == [type |-> "String", line_no |-> l, char_no |-> c, value |-> <<>>]

JsonNumber(l, c) ==
    [type |-> "Number", line_no |-> l, char_no |-> c, value |-> DoubleOf(0)]

JsonTrue(l, c) == [type |-> "True", line_no |-> l, char_no |-> c]

JsonFalse(l, c) == [type |-> "False", line_no |-> l, char_no |-> c]

JsonNull(l, c) == [type |-> "Null", line_no |-> l, char_no |-> c]

\* an add_value that lists the name of every member, present or not
JsonObject_add_value_listed(obj, name, val, p) ==
    IF name \in DOMAIN obj.values
    THEN [obj |-> [obj EXCEPT !.names_in_order = Append(@, name)],
          p |-> warn(p, "duplicate key")]
    ELSE [obj |-> [obj EXCEPT !.names_in_order = Append(@, name),
                              !.values = (name :> val) @@ @],
          p |-> p]

\* an add_value that lets a later member replace the value of its key
JsonObject_add_value_overwrite(obj, name, val, p) ==
    IF name \in DOMAIN obj.values
    THEN [obj |-> [obj EXCEPT !.values[name] = val], p |-> p]
    ELSE [obj |-> [obj EXCEPT !.names_in_order = Append(@, name),
                              !.values = (name :> val) @@ @],
          p |-> p]

\* JsonObject::add_value: the object and the parser (whose logger is warned)
JsonObject_add_value(obj, name, val, p) ==
    IF name \in DOMAIN obj.values
    THEN [obj |-> obj, p |-> warn(p, "duplicate key")]
    ELSE [obj |-> [obj EXCEPT !.names_in_order = Append(@, name),
                              !.values = (name :> val) @@ @],
          p |-> p]

\* an add_value that puts the value in front
JsonArray_add_value_front(arr, v) == [arr EXCEPT !.values = <<v>> \o @]

JsonArray_add_value(arr, v) == [arr EXCEPT !.values = Append(@, v)]

get_type(node) == node.type

\* a size that counts no node where there are no children
size_of_children(node) ==
    IF node.type = "Object" THEN Cardinality(DOMAIN node.values)
    ELSE IF node.type = "Array" THEN Len(node.values)
    ELSE 0

size(node) ==
    IF node.type = "Object" THEN Cardinality(DOMAIN node.values)
    ELSE IF node.type = "Array" THEN Len(node.values)
    ELSE 1

\* operator[](size_t)
IndexByPosition(node, i) ==
    IF node.type = "Object"
    THEN IF Len(node.names_in_order) <= i THEN default_json_none
         ELSE node.values[node.names_in_order[i + 1]]
    ELSE IF node.type = "Array"
    THEN IF Len(node.values) <= i THEN default_json_none
         ELSE node.values[i + 1]
    ELSE IF node.type = "None" THEN node
    ELSE default_json_none

\* an operator[] that answers with the node itself where there is no object
IndexByKey_self(node, n) ==
    IF node.type = "Object"
    THEN IF n \notin DOMAIN node.values THEN default_json_none
         ELSE node.values[n]
    ELSE node

\* operator[](const std::string&)
IndexByKey(node, n) ==
    IF node.type = "Object"
    THEN IF n \notin DOMAIN node.values THEN default_json_none
         ELSE node.values[n]
    ELSE IF node.type = "None" THEN node
    ELSE default_json_none

\* --------------------------------------------------------- productions
\* A production takes the parser and gives the parser after it and the node
\* it returns (NoValue once error() has been called: the process has exited).

get_unicode_from_hex(p) == eat_char(eat_char(eat_char(eat_char(p))))

\* a switch whose default case adds the character
string_escape_keep(g, str_val) == [p |-> g.p, str_val |-> Append(str_val, g.c)]

\* the `switch (c)` of string() on the character g.c after a backslash
string_escape(g, str_val) ==
    IF g.c = BSLASH \/ g.c = "/" \/ g.c = QUOTE
    THEN [p |-> g.p, str_val |-> Append(str_val, g.c)]
    ELSE IF g.c = "b" THEN [p |-> g.p, str_val |-> Append(str_val, BS)]
    ELSE IF g.c = "f" THEN [p |-> g.p, str_val |-> Append(str_val, FF)]
    ELSE IF g.c = "n" THEN [p |-> g.p, str_val |-> Append(str_val, NL)]
    ELSE IF g.c = "r" THEN [p |-> g.p, str_val |-> Append(str_val, CR)]
    ELSE IF g.c = "t" THEN [p |-> g.p, str_val |-> Append(str_val, TAB)]
    ELSE IF g.c = "u" THEN [p |-> get_unicode_from_hex(g.p), str_val |-> str_val]
    ELSE [p |-> warn(g.p, "invalid escape"), str_val |-> str_val]

\* `str_val += get_char()`
string_plain(g, str_val) == [p |-> g.p, str_val |-> Append(str_val, g.c)]

\* one turn of the while loop of string(), pk being the character peeked
string_turn(pk, str_val) ==
    IF pk.c = BSLASH THEN string_escape(get_char(eat_char(pk.p)), str_val)
    ELSE string_plain(get_char(pk.p), str_val)

\* the while loop of string(): the parser and str_val when the loop ends
RECURSIVE string_chars(_, _)
string_again(s) == string_chars(s.p, s.str_val)

string_while(pk, str_val) ==
    IF pk.c = QUOTE \/ pk.c = EOF \/ pk.c = NL THEN [p |-> pk.p, str_val |-> str_val]
    ELSE string_again(string_turn(pk, str_val))

string_chars(p, str_val) == string_while(peek_char(p, 1), str_val)

\* string() after the closing match_char('"')
string_closed(str, str_val, p2) ==
    IF Exited(p2) THEN [p |-> p2, v |-> NoValue]
    ELSE [p |-> p2, v |-> [str EXCEPT !.value = str_val]]

\* string() after its while loop
string_body(str, s) == string_closed(str, s.str_val, match_char(s.p, QUOTE))

\* string() after the opening match_char('"')
string_opened(p1) ==
    string_body(JsonString(p1.cursor.line_no, p1.cursor.char_no),
                string_chars(operator_new(p1, JsonString(p1.cursor.line_no, p1.cursor.char_no)),
                             <<>>))

string(p) == string_opened(match_char(p, QUOTE))

\* the `while (is_digit(peek_char()))` loops of number(): each digit is folded
\* into d_val; in the fractional part (frac) frac_size is multiplied by ten
RECURSIVE number_digits(_, _, _, _, _)
number_digits_take(g, d_val, frac_size, frac) ==
    number_digits(g.p, g.c, d_val * 10 + DigitVal(g.c),
                  IF frac THEN U64Mul10(frac_size) ELSE frac_size, frac)

number_digits_while(pk, c, d_val, frac_size, frac) ==
    IF is_digit(pk.c) THEN number_digits_take(get_char(pk.p), d_val, frac_size, frac)
    ELSE [p |-> pk.p, c |-> c, d_val |-> d_val, frac_size |-> frac_size]

number_digits(p, c, d_val, frac_size, frac) ==
    number_digits_while(peek_char(p, 1), c, d_val, frac_size, frac)

\* `if (negative) d_val *= -1; num->add_value(d_val); return num;`
number_return(p, num, negative, d_val) ==
    [p |-> p, v |-> [num EXCEPT !.value = IF negative THEN DoubleNeg(d_val) ELSE d_val]]

\* `if (neg_expo) expo *= -1; d_val *= exp10(expo);`, ds the digits of expo
number_exponent_scale(ds, num, negative, d_val, neg_expo) ==
    number_return(ds.p, num, negative,
                  DoubleMulExp10(d_val, IF neg_expo THEN 0 - ds.d_val ELSE ds.d_val))

\* the exponent from `if (c < '0' || c > '9')` on, g.c being c
number_exponent_digits(g, num, negative, d_val, neg_expo) ==
    IF ~is_digit(g.c)
    THEN [p |-> error([g.p EXCEPT !.cursor = correct_for_reporting(@, g.c)],
                      "expected digit in exponent"),
          v |-> NoValue]
    ELSE number_exponent_scale(number_digits(g.p, g.c, DigitVal(g.c), U64One, FALSE),
                               num, negative, d_val, neg_expo)

\* the exponent from `if (c == '+' || c == '-')` on, g.c being c
number_exponent_sign(g, num, negative, d_val) ==
    number_exponent_digits(IF g.c = "+" \/ g.c = "-" THEN get_char(g.p) ELSE g,
                           num, negative, d_val, g.c = "-")

\* number() from `if ((c = peek_char()) == 'E' || c == 'e')` on: d_val is the
\* double already divided by frac_size
number_exponent(pk, num, negative, d_val) ==
    IF pk.c = "E" \/ pk.c = "e"
    THEN number_exponent_sign(get_char(eat_char(pk.p)), num, negative, d_val)
    ELSE number_return(pk.p, num, negative, d_val)

\* `d_val = d_val / static_cast<double>(frac_size)` and on
number_divide(ds, num, negative) ==
    number_exponent(peek_char(ds.p, 1), num, negative,
                    DoubleDiv(DoubleOf(ds.d_val), ds.frac_size))

\* a fractional part accepted without a digit
number_fraction_digits_unchecked(ds, num, negative) == ds

\* `if (frac_size == 1)` after the digits that follow the decimal point
number_fraction_digits(ds, num, negative) ==
    IF ds.frac_size = U64One
    THEN [p |-> error([ds.p EXCEPT !.cursor = correct_for_reporting(@, ds.c)],
                      "expected digit after decimal point"),
          v |-> NoValue]
    ELSE ds

\* number() from `size_t frac_size = 1` on: d_val is the integer part, pk the
\* character peeked
number_fraction(pk, num, negative, c, d_val) ==
    IF pk.c = "."
    THEN number_fraction_digits(number_digits(eat_char(pk.p), c, d_val, U64One, TRUE),
                                num, negative)
    ELSE [p |-> pk.p, c |-> c, d_val |-> d_val, frac_size |-> U64One]

\* number() after its fractional part
number_after_fraction(ds, num, negative) ==
    IF Exited(ds.p) THEN ds ELSE number_divide(ds, num, negative)

\* number() after its integer part
number_after_integer(ds, num, negative) ==
    number_after_fraction(number_fraction(peek_char(ds.p, 1), num, negative, ds.c, ds.d_val),
                          num, negative)

\* number() from `if ('1' <= c && c <= '9')` on, g.c being c
number_integer(g, num, negative) ==
    IF is_digit(g.c) /\ g.c # "0"
    THEN number_after_integer(number_digits(g.p, g.c, DigitVal(g.c), U64One, FALSE),
                              num, negative)
    ELSE IF g.c = "0"
    THEN number_after_integer([p |-> g.p, c |-> g.c, d_val |-> 0], num, negative)
    ELSE [p |-> error([g.p EXCEPT !.cursor = correct_for_reporting(@, g.c)],
                      "expected digit"),
          v |-> NoValue]

\* number() from `if (c == '-')` on, g.c being c
number_sign(g, num) ==
    number_integer(IF g.c = "-" THEN get_char(g.p) ELSE g, num, g.c = "-")

number(p) ==
    number_sign(get_char(operator_new(p, JsonNumber(p.cursor.line_no, p.cursor.char_no + 1))),
                JsonNumber(p.cursor.line_no, p.cursor.char_no + 1))

\* the shared body of true_(), false_() and null()
literal_matched(p1, node) == [p |-> p1, v |-> IF Exited(p1) THEN NoValue ELSE node]

literal(p, node, s) == literal_matched(match_string(operator_new(p, node), s), node)

true_(p) ==
    literal(p, JsonTrue(p.cursor.line_no, p.cursor.char_no + 1), <<"t", "r", "u", "e">>)

false_(p) ==
    literal(p, JsonFalse(p.cursor.line_no, p.cursor.char_no + 1),
            <<"f", "a", "l", "s", "e">>)

null(p) ==
    literal(p, JsonNull(p.cursor.line_no, p.cursor.char_no + 1), <<"n", "u", "l", "l">>)

RECURSIVE value(_), object_members(_, _), array_elements(_, _)

\* the characters taken in for good: read from the stream and not in the queue
\* (the end of input is no character of the stream)
Consumed(p) ==
    p.in_stream.pos - Cardinality({i \in 1..Len(p.unget_queue) : p.unget_queue[i] # EOF})

\* the return of production prod, called on parser p, with r
production_returned(prod, p, r) ==
    IF Exited(r.p) THEN r
    ELSE [r EXCEPT !.p.returns =
                      Append(@, [prod |-> prod, from |-> Consumed(p), to |-> Consumed(r.p)])]

\* a loop that goes on to the next member without a comma
object_next_lenient(added, pk) ==
    IF pk.c = "," THEN object_members(eat_char(pk.p), added.obj)
    ELSE IF pk.c = QUOTE THEN object_members(pk.p, added.obj)
    ELSE [p |-> pk.p, v |-> added.obj]

\* `if (peek_char() == ',') eat_char(); else done = true;` of object()
object_next(added, pk) ==
    IF pk.c = "," THEN object_members(eat_char(pk.p), added.obj)
    ELSE [p |-> pk.p, v |-> added.obj]

\* object() after `obj->add_value(...)`
object_added(added) == object_next(added, peek_char(added.p, 1))

\* `delete str` of object()
object_key_deleted(added, str) == [added EXCEPT !.p = operator_delete(@, str)]

\* object() after `JsonValue* val = value()`
object_member(obj, str, val) ==
    IF Exited(val.p) THEN [p |-> val.p, v |-> obj]
    ELSE object_added(object_key_deleted(
                         JsonObject_add_value(obj, str.v.value, val.v, val.p), str.v))

\* object() after the key `str = string()`
object_key(obj, str) ==
    IF Exited(str.p) THEN [p |-> str.p, v |-> obj]
    ELSE object_member(obj, str, value(match_char(ws(str.p), ":")))

\* the `while (!done)` loop of object(): the parser and obj when it ends
object_key_string(p1) == production_returned("string", p1, string(p1))

object_members(p, obj) == object_key(obj, object_key_string(ws(p)))

\* an object() that goes on over the whitespace behind its '}'
object_closed_ws(ms, p2) == [p |-> ws(p2), v |-> IF Exited(p2) THEN NoValue ELSE ms.v]

\* object() after `match_char('}')`
object_closed(ms, p2) == [p |-> p2, v |-> IF Exited(p2) THEN NoValue ELSE ms.v]

\* object() after its while loop
object_body(ms) == object_closed(ms, match_char(ms.p, "}"))

\* `if (peek_char() == '}') { eat_char(); return obj; }` and on
object_first(obj, pk) ==
    IF pk.c = "}" THEN [p |-> eat_char(pk.p), v |-> obj]
    ELSE object_body(object_members(pk.p, obj))

\* object() after `match_char('{')`
object_opened(p1) ==
    IF Exited(p1) THEN [p |-> p1, v |-> NoValue]
    ELSE object_first(JsonObject(p1.cursor.line_no, p1.cursor.char_no),
                      peek_char(ws(operator_new(p1, JsonObject(p1.cursor.line_no,
                                                               p1.cursor.char_no))), 1))

object(p) == object_opened(match_char(p, "{"))

\* `if (peek_char() == ',') eat_char(); else done = true;` of array()
array_next(added, pk) ==
    IF pk.c = "," THEN array_elements(eat_char(pk.p), added)
    ELSE [p |-> pk.p, v |-> added]

\* array() after `JsonValue* val = value()`
array_element(arr, val) ==
    IF Exited(val.p) THEN [p |-> val.p, v |-> arr]
    ELSE array_next(JsonArray_add_value(arr, val.v), peek_char(val.p, 1))

\* the `while (!done)` loop of array(): the parser and arr when it ends
array_elements(p, arr) == array_element(arr, value(p))

\* array() after `match_char(']')`
array_closed(es, p2) == [p |-> p2, v |-> IF Exited(p2) THEN NoValue ELSE es.v]

\* array() after its while loop
array_body(es) == array_closed(es, match_char(es.p, "]"))

\* `if (peek_char() == ']') { eat_char(); return arr; }` and on
array_first(arr, pk) ==
    IF pk.c = "]" THEN [p |-> eat_char(pk.p), v |-> arr]
    ELSE array_body(array_elements(pk.p, arr))

\* array() after `match_char('[')`
array_opened(p1) ==
    IF Exited(p1) THEN [p |-> p1, v |-> NoValue]
    ELSE array_first(JsonArray(p1.cursor.line_no, p1.cursor.char_no),
                     peek_char(ws(operator_new(p1, JsonArray(p1.cursor.line_no,
                                                             p1.cursor.char_no))), 1))

array(p) == array_opened(match_char(p, "["))

\* a `switch (c)` whose default returns without a word to the logger
value_switch_silent(pk) ==
    IF pk.c = "{" THEN production_returned("object", pk.p, object(pk.p))
    ELSE IF pk.c = "[" THEN production_returned("array", pk.p, array(pk.p))
    ELSE IF pk.c = QUOTE THEN production_returned("string", pk.p, string(pk.p))
    ELSE IF pk.c = "t" THEN production_returned("true_", pk.p, true_(pk.p))
    ELSE IF pk.c = "f" THEN production_returned("false_", pk.p, false_(pk.p))
    ELSE IF pk.c = "n" THEN production_returned("null", pk.p, null(pk.p))
    ELSE IF valid_in_number(pk.c) THEN production_returned("number", pk.p, number(pk.p))
    ELSE [p |-> eat_char(pk.p), v |-> NoValue]

\* the `switch (c)` of value(), pk.c being c
value_switch(pk) ==
    IF pk.c = "{" THEN production_returned("object", pk.p, object(pk.p))
    ELSE IF pk.c = "[" THEN production_returned("array", pk.p, array(pk.p))
    ELSE IF pk.c = QUOTE THEN production_returned("string", pk.p, string(pk.p))
    ELSE IF pk.c = "t" THEN production_returned("true_", pk.p, true_(pk.p))
    ELSE IF pk.c = "f" THEN production_returned("false_", pk.p, false_(pk.p))
    ELSE IF pk.c = "n" THEN production_returned("null", pk.p, null(pk.p))
    ELSE IF valid_in_number(pk.c) THEN production_returned("number", pk.p, number(pk.p))
    ELSE [p |-> error(eat_char(pk.p), "expected value"), v |-> NoValue]

\* `ws(); return val;`
value_return(val) == [p |-> ws(val.p), v |-> val.v]

value(p) == value_return(value_switch(peek_char(ws(p), 1)))

element(p) == value(p)

json(p) == element(p)

\* a parse() that takes whatever follows for the end of input
parse_eof_silent(r, g) == [p |-> log(g.p), root |-> r.v]

\* parse() from `if ((c = get_char()) != EOF)` on, g.c being c
parse_eof(r, g) ==
    [p |-> IF g.c # EOF THEN warn(g.p, "trailing content") ELSE log(g.p),
     root |-> r.v]

\* parse() after `JsonValue* root = json()`
parse_root(r) ==
    IF Exited(r.p) THEN [p |-> r.p, root |-> NoValue]
    ELSE parse_eof(r, get_char(r.p))

\* Parser::parse: the parser afterwards and the root of the Json it returns
\* (NoValue when the process exited instead)
parse(p) == parse_root(json(p))

\* ------------------------------------------------------------ printing

\* a padding of one space for every level
padding_single(n) == [i \in 1..n |-> " "]

\* static std::string padding(size_t size)
padding(n) == [i \in 1..(2 * n) |-> " "]

Zeros(n) == [i \in 1..n |-> "0"]

\* the decimal digits of n >= 0
RECURSIVE Digits(_)
Digits(n) ==
    IF n < 10 THEN <<DigitChars[n + 1]>>
    ELSE Append(Digits(n \div 10), DigitChars[(n % 10) + 1])

RECURSIVE Pow10(_)
Pow10(k) == IF k = 0 THEN 1 ELSE 10 * Pow10(k - 1)

\* %g keeps six significant digits: d rounded to them (ties to even)
RoundSix(d) ==
    LET round(n, scale) ==
            DoubleNorm([d EXCEPT
                !.m = IF (2 * (d.m % scale) > scale)
                         \/ (2 * (d.m % scale) = scale /\ (d.m \div scale) % 2 = 1)
                      THEN (d.m \div scale) + 1 ELSE d.m \div scale,
                !.e = @ + (n - 6)])
        sized(n) == IF n <= 6 THEN d ELSE round(n, Pow10(n - 6))
    IN sized(Len(Digits(d.m)))

\* fprintf(stream, "%g", value), for a double whose divisor was a power of ten
\* (den = 1) or zero (the quotient is inf or nan)
FormatG(d) ==
    LET sign == IF d.neg THEN <<"-">> ELSE <<>>
        styled(digs, n, X) ==
            CASE X < -4 \/ X >= 6 ->
                   <<digs[1]>>
                     \o (IF n > 1 THEN <<".">> \o SubSeq(digs, 2, n) ELSE <<>>)
                     \o <<"e", IF X < 0 THEN "-" ELSE "+">>
                     \o (IF X > -10 /\ X < 10 THEN <<"0">> ELSE <<>>)
                     \o Digits(IF X < 0 THEN 0 - X ELSE X)
              [] X >= 0 /\ X < 6 ->
                   (IF n >= X + 1 THEN SubSeq(digs, 1, X + 1) ELSE digs \o Zeros(X + 1 - n))
                     \o (IF n > X + 1 THEN <<".">> \o SubSeq(digs, X + 2, n) ELSE <<>>)
              [] X < 0 /\ X >= -4 -> <<"0", ".">> \o Zeros(0 - X - 1) \o digs
        digits(r, digs) == styled(digs, Len(digs), r.e + Len(digs) - 1)
        rounded(r) == IF r.m = 0 THEN <<"0">> ELSE digits(r, Digits(r.m))
    IN CASE d.den = U64Zero ->
              sign \o (IF d.m = 0 THEN <<"n", "a", "n">> ELSE <<"i", "n", "f">>)
         [] d.den = U64One -> sign \o rounded(RoundSix(d))

\* sjp::type_to_str
type_to_str(type) ==
    CASE type = "Object" -> <<"o", "b", "j", "e", "c", "t">>
      [] type = "Array" -> <<"a", "r", "r", "a", "y">>
      [] type = "Number" -> <<"n", "u", "m", "b", "e", "r">>
      [] type = "String" -> <<"s", "t", "r", "i", "n", "g">>
      [] type = "True" -> <<"t", "r", "u", "e">>
      [] type = "False" -> <<"f", "a", "l", "s", "e">>
      [] type = "Null" -> <<"n", "u", "l", "l">>
      [] type = "None" -> <<"n", "o", "n", "e">>

RECURSIVE print(_, _), JsonObject_print_from(_, _, _), JsonArray_print_from(_, _, _)

\* the for loop of JsonObject::print from index i (1-based) on
JsonObject_print_from(obj, i, d) ==
    IF i > Len(obj.names_in_order) THEN <<>>
    ELSE LET name == obj.names_in_order[i]
         IN padding(d + 1) \o <<QUOTE>> \o name \o <<QUOTE, ":", " ">>
              \o print(obj.values[name], d + 1)
              \o (IF i < Len(obj.names_in_order) THEN <<",", NL>> ELSE <<NL>>)
              \o JsonObject_print_from(obj, i + 1, d)

\* the for loop of JsonArray::print from index i (1-based) on
JsonArray_print_from(arr, i, d) ==
    IF i > Len(arr.values) THEN <<>>
    ELSE padding(d + 1) \o print(arr.values[i], d + 1)
           \o (IF i < Len(arr.values) THEN <<",", NL>> ELSE <<NL>>)
           \o JsonArray_print_from(arr, i + 1, d)

\* JsonValue::print and its overrides: the characters written to the stream
print(node, d) ==
    IF node.type = "Object"
    THEN <<"{", NL>> \o JsonObject_print_from(node, 1, d) \o padding(d) \o <<"}">>
    ELSE IF node.type = "Array"
    THEN <<"[", NL>> \o JsonArray_print_from(node, 1, d) \o padding(d) \o <<"]">>
    ELSE IF node.type = "String" THEN <<QUOTE>> \o node.value \o <<QUOTE>>
    ELSE IF node.type = "Number" THEN FormatG(node.value)
    ELSE type_to_str(node.type)

\* Json::print
Json_print(root) == print(root, 0) \o <<NL>>

\* `delete node`: the destructor of the node runs, then the node is freed; the
\* nodes freed, in order (delete of a null pointer frees nothing)
RECURSIVE JsonValue_delete(_), JsonObject_delete_from(_, _), JsonArray_delete_from(_, _)

\* ~JsonObject: `for (name: names_in_order) delete values[name]`, from the i-th
JsonObject_delete_from(obj, i) ==
    IF i > Len(obj.names_in_order) THEN <<>>
    ELSE JsonValue_delete(obj.values[obj.names_in_order[i]])
           \o JsonObject_delete_from(obj, i + 1)

\* ~JsonArray: `for (n: values) delete n`, from the i-th
JsonArray_delete_from(arr, i) ==
    IF i > Len(arr.values) THEN <<>>
    ELSE JsonValue_delete(arr.values[i]) \o JsonArray_delete_from(arr, i + 1)

JsonValue_delete(node) ==
    IF node.type = "nullptr" THEN <<>>
    ELSE IF node.type = "Object" THEN JsonObject_delete_from(node, 1) \o <<NodeId(node)>>
    ELSE IF node.type = "Array" THEN JsonArray_delete_from(node, 1) \o <<NodeId(node)>>
    ELSE <<NodeId(node)>>

\* ~Json
Json_destroy(root) == JsonValue_delete(root)

\* What a query leaves of the node it is called on.  `values[name]` on the
\* std::unordered_map of a JsonObject inserts a null pointer when the map has
\* no such key; the vector of a JsonArray is only read.

\* values[name]: the map afterwards
unordered_map_subscript(values, name) ==
    IF name \in DOMAIN values THEN values ELSE (name :> NoValue) @@ values

\* JsonObject::operator[](size_t): the object afterwards
JsonObject_after_index_position(obj, i) ==
    IF Len(obj.names_in_order) <= i THEN obj
    ELSE [obj EXCEPT !.values = unordered_map_subscript(@, obj.names_in_order[i + 1])]

\* an operator[] that subscripts the map without looking for the key first
JsonObject_after_index_key_unguarded(obj, n) ==
    [obj EXCEPT !.values = unordered_map_subscript(@, n)]

\* JsonObject::operator[](const std::string&): the object afterwards
JsonObject_after_index_key(obj, n) ==
    IF n \notin DOMAIN obj.values THEN obj
    ELSE [obj EXCEPT !.values = unordered_map_subscript(@, n)]

\* print: the node afterwards, its children printed in turn
RECURSIVE JsonValue_after_print(_), JsonObject_after_print_from(_, _)

\* `JsonValue* value = values[name]; ... value->print(stream, d+1);`
JsonObject_after_print_of(obj, name) ==
    [obj EXCEPT !.values = [unordered_map_subscript(@, name) EXCEPT
                               ![name] = JsonValue_after_print(@)]]

\* the for loop of JsonObject::print from index i (1-based) on
JsonObject_after_print_from(obj, i) ==
    IF i > Len(obj.names_in_order) THEN obj
    ELSE JsonObject_after_print_from(JsonObject_after_print_of(obj, obj.names_in_order[i]),
                                     i + 1)

JsonValue_after_print(node) ==
    IF node.type = "Object" THEN JsonObject_after_print_from(node, 1)
    ELSE IF node.type = "Array"
    THEN [node EXCEPT !.values = [i \in 1..Len(node.values) |->
                                     JsonValue_after_print(node.values[i])]]
    ELSE node

\* the node after the query q: operator[] by position or key, or size(),
\* get_type() and print()
JsonValue_after(node, q) ==
    IF q.k = "inspect" THEN JsonValue_after_print(node)
    ELSE IF node.type # "Object" THEN node
    ELSE IF q.k = "pos" THEN JsonObject_after_index_position(node, q.i)
    ELSE JsonObject_after_index_key(node, q.n)

\* the tree under node after the query q on the node the operator[] arguments
\* `steps` lead to (the JsonValue& the caller holds points into the tree);
\* steps that leave the tree lead to default_json_none, no node of it
RECURSIVE tree_after(_, _, _)
tree_after(node, steps, q) ==
    IF steps = <<>> THEN JsonValue_after(node, q)
    ELSE IF node.type = "Object" /\ Head(steps).k = "pos"
            /\ Head(steps).i < Len(node.names_in_order)
    THEN [node EXCEPT !.values[node.names_in_order[Head(steps).i + 1]] =
                         tree_after(@, Tail(steps), q)]
    ELSE IF node.type = "Object" /\ Head(steps).k = "key"
            /\ Head(steps).n \in DOMAIN node.values
    THEN [node EXCEPT !.values[Head(steps).n] = tree_after(@, Tail(steps), q)]
    ELSE IF node.type = "Array" /\ Head(steps).k = "pos"
            /\ Head(steps).i < Len(node.values)
    THEN [node EXCEPT !.values[Head(steps).i + 1] = tree_after(@, Tail(steps), q)]
    ELSE node

\* ------------------------------------------------- the documents parsed
\* A document is written as a tree of tokens: a leaf is one scalar token as it
\* stands in the text, an array lists its items, an object its members (key
\* token and value) in the order of the text.  The stream holds the tokens of
\* the tree, varied: whitespace put between them, the text cut short, or
\* content added after it.

\* the most items of an array, or members of an object, of a document
MaxElems == 2

\* the longest run of whitespace put into every gap of a document
MaxWsRun == 2

Leaf(tok) == [k |-> "leaf", tok |-> tok]

Arr(items) == [k |-> "arr", items |-> items]

Obj(members) == [k |-> "obj", members |-> members]

Member(key, val) == [key |-> key, val |-> val]

StrLit(chars) == <<QUOTE>> \o chars \o <<QUOTE>>

KeyA == StrLit(<<"a">>)

KeyB == StrLit(<<"b">>)

\* string literals with the escapes \n \" \\ \t, an unrecognized escape and \u
EscapedStrings ==
    {StrLit(<<"a", BSLASH, "n", "b">>), StrLit(<<BSLASH, QUOTE>>),
     StrLit(<<BSLASH, BSLASH>>), StrLit(<<BSLASH, "t">>),
     StrLit(<<"a", BSLASH, "q", "b">>),
     StrLit(<<BSLASH, "u", "0", "0", "4", "1">>)}

StringTokens == {KeyA, KeyB, StrLit(<<>>), StrLit(<<"x", " ", "y">>)} \cup EscapedStrings

NumberTokens ==
    {<<"0">>, <<"1">>, <<"2">>, <<"-", "0", ".", "5", "e", "2">>,
     <<"3", ".", "1", "4", "0", "0">>}

LiteralTokens ==
    {<<"t", "r", "u", "e">>, <<"f", "a", "l", "s", "e">>, <<"n", "u", "l", "l">>}

ScalarDocs == {Leaf(t) : t \in StringTokens \cup NumberTokens \cup LiteralTokens}

\* the scalars that fill the containers with several children
SmallDocs == {Leaf(<<"1">>), Leaf(<<"2">>), Leaf(KeyA), Leaf(<<"n", "u", "l", "l">>)}

\* the sequences over S of lo to hi elements
SeqsOf(S, lo, hi) == UNION {[1..n -> S] : n \in lo..hi}

ArraysOver(S, lo, hi) == {Arr(items) : items \in SeqsOf(S, lo, hi)}

ObjectsOver(K, S, lo, hi) ==
    {Obj(ms) : ms \in SeqsOf({Member(key, val) : key \in K, val \in S}, lo, hi)}

FlatDocs ==
    ArraysOver(SmallDocs, 0, MaxElems)
      \cup ArraysOver(ScalarDocs, 1, 1)
      \cup ObjectsOver({KeyA, KeyB}, SmallDocs, 0, MaxElems)
      \cup ObjectsOver({KeyA}, ScalarDocs, 1, 1)
      \cup ObjectsOver(EscapedStrings, {Leaf(<<"1">>)}, 1, 1)

\* the children of the nested documents
InnerDocs ==
    {Leaf(<<"1">>), Arr(<<>>), Arr(<<Leaf(<<"1">>), Leaf(<<"2">>)>>),
     Obj(<<Member(KeyA, Leaf(<<"1">>))>>)}

NestedDocs ==
    ArraysOver(InnerDocs, 1, MaxElems)
      \cup ObjectsOver({KeyA, KeyB}, InnerDocs, 1, MaxElems)

Docs == ScalarDocs \cup FlatDocs \cup NestedDocs

RECURSIVE Tokens(_), ItemTokens(_, _), MemberTokens(_, _)

\* the tokens of items i.. of an array, a comma between two items
ItemTokens(items, i) ==
    IF i > Len(items) THEN <<>>
    ELSE Tokens(items[i]) \o (IF i < Len(items) THEN <<<<",">>>> ELSE <<>>)
           \o ItemTokens(items, i + 1)

\* the tokens of members i.. of an object, a comma between two members
MemberTokens(ms, i) ==
    IF i > Len(ms) THEN <<>>
    ELSE <<ms[i].key, <<":">>>> \o Tokens(ms[i].val)
           \o (IF i < Len(ms) THEN <<<<",">>>> ELSE <<>>)
           \o MemberTokens(ms, i + 1)

\* the tokens of a document, in the order of the text
Tokens(d) ==
    IF d.k = "leaf" THEN <<d.tok>>
    ELSE IF d.k = "arr" THEN <<<<"[">>>> \o ItemTokens(d.items, 1) \o <<<<"]">>>>
    ELSE <<<<"{">>>> \o MemberTokens(d.members, 1) \o <<<<"}">>>>

\* the tokens i.. written one after the other, gaps[j] before token j and
\* gaps[Len + 1] after the last
RECURSIVE Spaced(_, _, _)
Spaced(toks, gaps, i) ==
    IF i > Len(toks) THEN gaps[i]
    ELSE gaps[i] \o toks[i] \o Spaced(toks, gaps, i + 1)

\* the same run in every gap of toks
AllGaps(toks, run) == [j \in 1..(Len(toks) + 1) |-> run]

\* a run in gap g only
OneGap(toks, g, run) == [j \in 1..(Len(toks) + 1) |-> IF j = g THEN run ELSE <<>>]

\* the text of a document with nothing between its tokens
Text(d) == Spaced(Tokens(d), AllGaps(Tokens(d), <<>>), 1)

WsChars == {" ", TAB, NL, CR}

WsRuns == SeqsOf(WsChars, 1, MaxWsRun)

\* content that follows a complete document
Junk ==
    {<<"x">>, <<"1">>, <<".", "5">>, <<"e">>, <<"}">>, <<",">>, <<"{", "}">>,
     <<QUOTE>>}

TrailingWs == {<<>>, <<" ">>, <<NL>>, <<CR, NL, TAB>>}

Plain == [kind |-> "plain"]

\* a token that can start no value and stand for no punctuation
BadTokens == {<<"x">>, <<"t", "r", "u", "x">>}

\* the ways the text of document d is varied
Variants(d) ==
    {Plain}
      \cup {[kind |-> "ws", run |-> r] : r \in WsRuns}
      \cup {[kind |-> "gap", at |-> g] : g \in 1..(Len(Tokens(d)) + 1)}
      \cup {[kind |-> "cut", len |-> n] : n \in 0..(Len(Text(d)) - 1)}
      \cup {[kind |-> "bad", at |-> g, tok |-> b] : g \in 1..Len(Tokens(d)), b \in BadTokens}
      \cup {[kind |-> "trail", ws |-> w, junk |-> j] :
               w \in TrailingWs, j \in Junk \cup {<<>>}}

\* the characters the stream holds for document d varied by v
Input(d, v) ==
    CASE v.kind = "plain" -> Text(d)
      [] v.kind = "ws" -> Spaced(Tokens(d), AllGaps(Tokens(d), v.run), 1)
      [] v.kind = "gap" ->
           Spaced(Tokens(d), OneGap(Tokens(d), v.at, <<" ", TAB, NL, CR>>), 1)
      [] v.kind = "cut" -> SubSeq(Text(d), 1, v.len)
      [] v.kind = "bad" ->
           Spaced([Tokens(d) EXCEPT ![v.at] = v.tok], AllGaps(Tokens(d), <<>>), 1)
      [] v.kind = "trail" -> Text(d) \o v.ws \o v.junk

\* ----------------------------------------------- the documents queried
\* The trees operator[] is applied to: containers of up to MaxQueryElems
\* children, keys repeated, and two nested documents.

MaxQueryElems == 3

\* the longest chain of operator[] applied to a tree
MaxChain == 3

QueryLeaves == {Leaf(<<"1">>), Leaf(<<"2">>)}

QueryDocs ==
    QueryLeaves
      \cup ArraysOver(QueryLeaves, 0, MaxQueryElems)
      \cup ObjectsOver({KeyA, KeyB}, QueryLeaves, 0, MaxQueryElems)
      \cup {Arr(<<Arr(<<Leaf(<<"1">>), Leaf(<<"2">>)>>), Obj(<<Member(KeyB, Leaf(<<"2">>))>>)>>),
            Obj(<<Member(KeyA, Arr(<<Leaf(<<"1">>), Leaf(<<"2">>)>>)),
                  Member(KeyB, Obj(<<Member(KeyA, Leaf(<<"2">>))>>))>>),
            Arr(<<Leaf(KeyA), Leaf(<<"t", "r", "u", "e">>)>>),
            Obj(<<Member(KeyA, Leaf(<<"f", "a", "l", "s", "e">>)),
                  Member(KeyB, Leaf(<<"n", "u", "l", "l">>))>>)}

\* one application of operator[]: by position, or by key
Pos(i) == [k |-> "pos", i |-> i]

Key(n) == [k |-> "key", n |-> n]

\* the arguments operator[] is given: positions in and out of range, keys
\* present and absent
Indices ==
    {Pos(i) : i \in 0..MaxQueryElems} \cup {Pos(5)}
      \cup {Key(n) : n \in {<<"a">>, <<"b">>, <<"x">>, <<"y">>}}

\* ------------------------------------------------- the members added
\* JsonObject::add_value called member after member on one object.

MaxMembers == 3

MemberNames == {<<"a">>, <<"b">>, <<"c">>}

\* a JsonNumber holding n
NumberNode(n) == [JsonNumber(1, 1) EXCEPT !.value = DoubleOf(n)]

MemberValues == {NumberNode(1), NumberNode(2)}

\* --------------------------------------------------- the numbers parsed
\* The text number() is called on: a sign, integer digits, a fractional
\* part, an exponent, each present, absent or without its digits, and the
\* character that follows.

\* the digits of the longest fractional part
MaxFracDigits == 20

Signs == {<<>>, <<"-">>}

IntegerParts == {<<"0">>, <<"7">>, <<"1", "2">>}

\* a fractional part of n digits: n - 1 zeros and a 1
SmallFraction(n) == <<".">> \o Zeros(n - 1) \o <<"1">>

Fractions == {<<>>, <<".">>, <<".", "5">>, <<".", "1", "4", "0", "0">>}

LongFractions == {SmallFraction(n) : n \in {MaxFracDigits - 1, MaxFracDigits}}

Exponents ==
    {<<>>, <<"e", "2">>, <<"E", "+", "1", "0">>, <<"e", "-", "3">>,
     <<"e">>, <<"E">>, <<"e", "+">>, <<"E", "-">>}

\* what follows the number: nothing (end of input) or a character
Followers == {<<>>, <<",">>, <<" ">>, <<NL>>, <<"x">>}

NumberText(sign, int, frac, exp) ==
    [k |-> "number", sign |-> sign, int |-> int, frac |-> frac, exp |-> exp]

\* value() calls number() on a digit or a '-': the integer digits are absent
\* only behind a '-'; the long fractions stand behind the integer 0
NumberTexts ==
    {NumberText(s, i, f, e) : s \in Signs, i \in IntegerParts, f \in Fractions, e \in Exponents}
      \cup {NumberText(<<"-">>, <<>>, f, e) : f \in Fractions, e \in Exponents}
      \cup {NumberText(s, <<"0">>, f, <<>>) : s \in Signs, f \in LongFractions}

\* the parser as value() leaves it when it calls number(): after ws() and
\* peek_char()
AtValue(data) == peek_char(ws(NewParser(data)), 1).p

\* ------------------------------------------------------ the state machine

VARIABLES
    doc,        \* the document (or number text) the stream was written from
    variant,    \* how its text was varied
    parser,     \* the sjp::Parser, its logger included
    root,       \* the root of the sjp::Json that parse() returned
    pc,         \* "constructed", "parsed", or "exited" after error()
    printed,    \* what Json::print wrote (nothing: <<>>)
    parser2,    \* a second Parser, over the printed text
    root2,      \* the root that second parse() returned
    pc2,        \* "none", "parsed" or "exited"
    ref,        \* the JsonValue& the caller holds
    path,       \* the operator[] arguments that led from the root to ref
    members     \* the (name, val) pairs add_value was called with

vars ==
    <<doc, variant, parser, root, pc, printed, parser2, root2, pc2, ref, path, members>>

\* a Parser constructed over `data`, and nothing done yet
Fresh(d, v, p) ==
    /\ doc = d
    /\ variant = v
    /\ parser = p
    /\ root = NoValue
    /\ pc = "constructed"
    /\ printed = <<>>
    /\ parser2 = NewParser(<<>>)
    /\ root2 = NoValue
    /\ pc2 = "none"
    /\ ref = NoValue
    /\ path = <<>>
    /\ members = <<>>

Constructed(d, v) == Fresh(d, v, NewParser(Input(d, v)))

Init == \E d \in Docs : \E v \in Variants(d) : Constructed(d, v)

\* sjp::Json json = parser.parse();
Parse ==
    /\ pc = "constructed"
    /\ doc.k # "number"
    /\ \E r \in {parse(parser)} :
          /\ parser' = r.p
          /\ root' = r.root
          /\ ref' = r.root
          /\ pc' = IF Exited(r.p) THEN "exited" ELSE "parsed"
    /\ UNCHANGED <<doc, variant, printed, parser2, root2, pc2, path, members>>

\* json.print(stream);
PrintJson ==
    /\ pc = "parsed"
    /\ printed = <<>>
    /\ printed' = Json_print(root)
    /\ UNCHANGED <<doc, variant, parser, root, pc, parser2, root2, pc2, ref, path, members>>

\* a Parser constructed over the printed text, and its parse()
Reparse ==
    /\ printed # <<>>
    /\ pc2 = "none"
    /\ \E r \in {parse(NewParser(printed))} :
          /\ parser2' = r.p
          /\ root2' = r.root
          /\ pc2' = IF Exited(r.p) THEN "exited" ELSE "parsed"
    /\ UNCHANGED <<doc, variant, parser, root, pc, printed, ref, path, members>>

Next == Parse \/ PrintJson \/ Reparse

Spec == Init /\ [][Next]_vars

\* --- operator[] applied to a parsed tree, again and again

InitQuery == \E d \in QueryDocs : Constructed(d, Plain)

\* ref[i], ref["n"]
Index ==
    /\ pc = "parsed"
    /\ Len(path) < MaxChain
    /\ \E s \in Indices :
          /\ ref' = IF s.k = "pos" THEN IndexByPosition(ref, s.i) ELSE IndexByKey(ref, s.n)
          /\ path' = Append(path, s)
          /\ root' = tree_after(root, path, s)
    /\ UNCHANGED <<doc, variant, parser, pc, printed, parser2, root2, pc2, members>>

\* ref.size(); ref.get_type(); ref.print(stream);
InspectNode ==
    /\ pc = "parsed"
    /\ printed = <<>>
    /\ printed' = print(ref, 0)
    /\ root' = tree_after(root, path, [k |-> "inspect"])
    /\ UNCHANGED <<doc, variant, parser, pc, parser2, root2, pc2, ref, path, members>>

NextQuery == Parse \/ Index \/ InspectNode

SpecQuery == InitQuery /\ [][NextQuery]_vars

\* --- add_value called on one JsonObject, member after member

InitObject ==
    /\ doc = Obj(<<>>)
    /\ variant = Plain
    /\ parser = NewParser(<<>>)
    /\ root = JsonObject(1, 1)
    /\ pc = "building"
    /\ printed = <<>>
    /\ parser2 = NewParser(<<>>)
    /\ root2 = NoValue
    /\ pc2 = "none"
    /\ ref = NoValue
    /\ path = <<>>
    /\ members = <<>>

\* obj->add_value(name, val, *logger)
AddValue ==
    /\ pc = "building"
    /\ Len(members) < MaxMembers
    /\ \E name \in MemberNames, val \in MemberValues :
          \E added \in {JsonObject_add_value(root, name, val, parser)} :
             /\ root' = added.obj
             /\ parser' = added.p
             /\ members' = Append(members, [name |-> name, val |-> val])
    /\ UNCHANGED <<doc, variant, pc, printed, parser2, root2, pc2, ref, path>>

NextObject == AddValue

SpecObject == InitObject /\ [][NextObject]_vars

\* --- number() called by value()

InitNumber ==
    \E t \in NumberTexts, f \in Followers :
       Fresh(t, [kind |-> "follow", junk |-> f],
             AtValue(t.sign \o t.int \o t.frac \o t.exp \o f))

\* val = number();
ParseNumber ==
    /\ pc = "constructed"
    /\ doc.k = "number"
    /\ \E r \in {number(parser)} :
          /\ parser' = r.p
          /\ root' = r.v
          /\ pc' = IF Exited(r.p) THEN "exited" ELSE "parsed"
    /\ UNCHANGED <<doc, variant, printed, parser2, root2, pc2, ref, path, members>>

NextNumber == ParseNumber

SpecNumber == InitNumber /\ [][NextNumber]_vars

\* ---------------------------------------------------- the strings parsed
\* The text string() is called on: an opening quote, up to MaxItems items (a
\* character, an escape, a \u escape and four characters, a newline) and a
\* closing quote or the end of input.

MaxItems == 2

PlainItems == {<<"a">>, <<" ">>, <<"}">>}

KnownEscapeItems ==
    {<<BSLASH, c>> : c \in {BSLASH, "/", QUOTE, "b", "f", "n", "r", "t"}}

\* a backslash and a character the switch of string() has no case for
OtherEscapeItems == {<<BSLASH, "q">>, <<BSLASH, "0">>, <<BSLASH, "U">>, <<BSLASH, NL>>}

\* \u and the four characters behind it
UnicodeItems ==
    {<<BSLASH, "u", "0", "0", "4", "1">>, <<BSLASH, "u", "a", "F", "9", "c">>,
     <<BSLASH, "u", "z", "z", "z", "z">>, <<BSLASH, "u", "0", "0", NL, "1">>}

StringItems ==
    PlainItems \cup KnownEscapeItems \cup OtherEscapeItems \cup UnicodeItems \cup {<<NL>>}

StringTexts ==
    {[k |-> "string", items |-> is, closed |-> c] :
        is \in SeqsOf(StringItems, 0, MaxItems), c \in BOOLEAN}

\* the characters of the items from the i-th on
RECURSIVE ItemChars(_, _)
ItemChars(items, i) ==
    IF i > Len(items) THEN <<>> ELSE items[i] \o ItemChars(items, i + 1)

StringText(t) ==
    <<QUOTE>> \o ItemChars(t.items, 1) \o (IF t.closed THEN <<QUOTE>> ELSE <<>>)

\* --- string() called by value()

InitString ==
    \E t \in StringTexts, f \in {<<>>, <<",">>} :
       Fresh(t, [kind |-> "follow", junk |-> f], AtValue(StringText(t) \o f))

\* val = string();
ParseString ==
    /\ pc = "constructed"
    /\ doc.k = "string"
    /\ \E r \in {string(parser)} :
          /\ parser' = r.p
          /\ root' = r.v
          /\ pc' = IF Exited(r.p) THEN "exited" ELSE "parsed"
    /\ UNCHANGED <<doc, variant, printed, parser2, root2, pc2, ref, path, members>>

NextString == ParseString

SpecString == InitString /\ [][NextString]_vars

\* ----------------------------------------------------- the values parsed
\* The text value() is called on: whitespace, then a token that is complete,
\* one that breaks off, or one that starts no value (the empty one: the end
\* of input).

CompleteTokens ==
    {<<"{", "}">>, <<"[", "]">>, KeyA, <<"t", "r", "u", "e">>,
     <<"f", "a", "l", "s", "e">>, <<"n", "u", "l", "l">>, <<"7">>, <<"0">>, <<"-", "1">>}

BrokenTokens ==
    {<<"{", "x">>, <<"[", "1">>, <<QUOTE, "a">>, <<"t", "x">>, <<"f", "a">>,
     <<"n", "u", "l">>, <<"-">>, <<"-", "x">>}

OtherTokens ==
    {<<>>, <<"x">>, <<"}">>, <<"]">>, <<":">>, <<",">>, <<".", "5">>, <<"+", "1">>,
     <<"T", "r", "u", "e">>, <<"N">>, <<"F">>, <<"e">>, <<"'", "a", "'">>}

LeadingWs == {<<>>, <<" ">>, <<NL>>, <<TAB, CR>>, <<CR, NL, " ">>}

\* --- value() called on a stream

InitValue ==
    \E t \in CompleteTokens \cup BrokenTokens \cup OtherTokens, w \in LeadingWs :
       Fresh([k |-> "value", tok |-> t], [kind |-> "lead", ws |-> w], NewParser(w \o t))

\* JsonValue* val = value();
ParseValue ==
    /\ pc = "constructed"
    /\ doc.k = "value"
    /\ \E r \in {value(parser)} :
          /\ parser' = r.p
          /\ root' = r.v
          /\ pc' = IF Exited(r.p) THEN "exited" ELSE "parsed"
    /\ UNCHANGED <<doc, variant, printed, parser2, root2, pc2, ref, path, members>>

NextValue == ParseValue

SpecValue == InitValue /\ [][NextValue]_vars

\* --- value() called on an object or an array, a comma or whitespace or both
\* behind each of its members

\* the members of the longest of these objects and arrays
MaxSeparated == 3

Separators == {<<",">>, <<" ">>, <<",", " ">>, <<NL>>}

\* the key of member i: i letters, so that no two members share a key
SeparatedKey(i) == [j \in 1..i |-> "k"]

\* member i of an object, element i of an array
SeparatedMember(open, i) ==
    IF open = "{" THEN <<QUOTE>> \o SeparatedKey(i) \o <<QUOTE, ":", "1">> ELSE <<"1">>

RECURSIVE SeparatedMembers(_, _, _)
SeparatedMembers(open, seps, i) ==
    IF i > Len(seps) THEN <<>>
    ELSE SeparatedMember(open, i) \o seps[i] \o SeparatedMembers(open, seps, i + 1)

SeparatedText(open, seps) ==
    <<open>> \o SeparatedMembers(open, seps, 1) \o <<IF open = "{" THEN "}" ELSE "]">>

InitSeparated ==
    \E open \in {"{", "["}, seps \in SeqsOf(Separators, 0, MaxSeparated) :
       Fresh([k |-> "value", tok |-> SeparatedText(open, seps)],
             [kind |-> "separated", open |-> open, seps |-> seps],
             NewParser(SeparatedText(open, seps)))

NextSeparated == ParseValue

SpecSeparated == InitSeparated /\ [][NextSeparated]_vars

\* --- get_char and peek_char called on a stream, in any order

\* the characters of the longest stream
MaxStream == 3

\* the farthest a peek looks ahead
MaxPeek == 2

\* the get_char and unget_char calls of the longest run
MaxCursorTrace == 6

StreamTexts == SeqsOf({"a", "b", NL, BYTE_80, BYTE_FF}, 0, MaxStream)

InitCursor ==
    \E t \in StreamTexts : Fresh([k |-> "stream", text |-> t], Plain, NewParser(t))

\* c = get_char();
GetChar ==
    /\ doc.k = "stream"
    /\ Len(parser.trace) < MaxCursorTrace
    /\ parser' = get_char(parser).p
    /\ UNCHANGED <<doc, variant, root, pc, printed, parser2, root2, pc2, ref, path, members>>

\* c = peek_char(n);
PeekChar ==
    /\ doc.k = "stream"
    /\ Len(parser.trace) < MaxCursorTrace
    /\ \E n \in 1..MaxPeek : parser' = peek_char(parser, n).p
    /\ UNCHANGED <<doc, variant, root, pc, printed, parser2, root2, pc2, ref, path, members>>

NextCursor == GetChar \/ PeekChar

SpecCursor == InitCursor /\ [][NextCursor]_vars

\* --- parse() called on a text that ends anywhere

\* documents that take parse() through every loop of ws, string, number,
\* object and array
TerminationDocs ==
    {Obj(<<Member(StrLit(<<"a", BSLASH, "n", "b">>),
                  Arr(<<Leaf(<<"-", "0", ".", "5", "e", "2">>),
                        Leaf(<<"t", "r", "u", "e">>)>>)),
           Member(KeyB, Obj(<<>>))>>),
     Arr(<<Leaf(StrLit(<<BSLASH, "u", "0", "0", "4", "1">>)),
           Leaf(<<"3", ".", "1", "4", "0", "0">>), Arr(<<>>),
           Leaf(<<"n", "u", "l", "l">>)>>),
     Leaf(StrLit(<<"a", BSLASH, "q", "b">>)),
     Arr(<<Leaf(StrLit(<<"a", BYTE_FF>>)), Leaf(<<"1">>)>>),
     Leaf(<<"f", "a", "l", "s", "e">>)}

\* the text of a document with a space and a newline in every gap
SpacedText(d) == Spaced(Tokens(d), AllGaps(Tokens(d), <<" ", NL>>), 1)

\* every text that is the beginning of such a text, the empty one included
InitTermination ==
    \E d \in TerminationDocs : \E n \in 0..Len(SpacedText(d)) :
       Fresh(d, [kind |-> "prefix", len |-> n], NewParser(SubSeq(SpacedText(d), 1, n)))

NextTermination == Parse

\* the call of parse() seen from main: it is made on a constructed parser,
\* and control leaves it through its return or through the logger's exit
ParseCalled ==
    /\ pc = "constructed"
    /\ doc.k # "number"
    /\ pc' \in {"parsed", "exited"}

\* main calls parse() as soon as the parser is constructed
SpecTermination == InitTermination /\ [][NextTermination]_vars /\ WF_pc(ParseCalled)

\* --------------------------------------------------- the literals parsed
\* The text true_(), false_() and null() are called on: the literal and what
\* follows it, the literal with one character replaced (by its upper case,
\* another character, a newline, a space), and the literal cut short.

Literals == LiteralTokens

UpperCase ==
    ("t" :> "T") @@ ("r" :> "R") @@ ("u" :> "U") @@ ("e" :> "E") @@ ("f" :> "F")
      @@ ("a" :> "A") @@ ("l" :> "L") @@ ("s" :> "S") @@ ("n" :> "N")

LiteralText(lit, text) == [k |-> "literal", lit |-> lit, text |-> text]

\* the literal with its i-th character replaced
ReplacedAt(lit, i) ==
    IF i > Len(lit) THEN {}
    ELSE {LiteralText(lit, [lit EXCEPT ![i] = c]) : c \in {UpperCase[lit[i]], "x", NL, " "}}

LiteralTexts ==
    {LiteralText(l, l \o f) : l \in Literals, f \in {<<>>, <<",">>, <<" ">>, <<"x">>, <<"e">>}}
      \cup UNION {ReplacedAt(l, i) : l \in Literals, i \in 1..5}
      \cup UNION {{LiteralText(l, SubSeq(l, 1, i - 1)) : i \in 1..Len(l)} : l \in Literals}

\* --- true_(), false_() and null() called by value()

InitLiteral ==
    \E t \in LiteralTexts : Fresh(t, Plain, AtValue(t.text))

\* val = true_(); val = false_(); val = null();
ParseLiteral ==
    /\ pc = "constructed"
    /\ doc.k = "literal"
    /\ \E r \in {IF doc.lit = <<"t", "r", "u", "e">> THEN true_(parser)
                 ELSE IF doc.lit = <<"f", "a", "l", "s", "e">> THEN false_(parser)
                 ELSE null(parser)} :
          /\ parser' = r.p
          /\ root' = r.v
          /\ pc' = IF Exited(r.p) THEN "exited" ELSE "parsed"
    /\ UNCHANGED <<doc, variant, printed, parser2, root2, pc2, ref, path, members>>

NextLiteral == ParseLiteral

SpecLiteral == InitLiteral /\ [][NextLiteral]_vars

\* --- the Json that parse() returned goes out of scope

\* ~Json(): every node it frees is added to the nodes deleted
DestroyJson ==
    /\ pc = "parsed"
    /\ pc' = "destroyed"
    /\ parser' = [parser EXCEPT !.deletes = @ \o Json_destroy(root)]
    /\ root' = NoValue
    /\ ref' = NoValue
    /\ UNCHANGED <<doc, variant, printed, parser2, root2, pc2, path, members>>

NextHeap == Parse \/ DestroyJson

SpecHeap == Init /\ [][NextHeap]_vars

\* ------------------------------------------------------------ properties

\* a tree without the source positions of its nodes: node types, keys, child
\* order and scalar values
RECURSIVE Shape(_)
Shape(node) ==
    IF node.type = "Object"
    THEN [type |-> "Object", names_in_order |-> node.names_in_order,
          values |-> [n \in DOMAIN node.values |-> Shape(node.values[n])]]
    ELSE IF node.type = "Array"
    THEN [type |-> "Array", values |-> [i \in 1..Len(node.values) |-> Shape(node.values[i])]]
    ELSE IF node.type \in {"String", "Number"}
    THEN [type |-> node.type, value |-> node.value]
    ELSE [type |-> node.type]

\* how often x stands in seq
Count(seq, x) == Cardinality({i \in 1..Len(seq) : seq[i] = x})

\* the parse of document d as written, nothing added
PlainParse(d) == parse(NewParser(Text(d)))

\* a token that begins a number
IsNumberToken(tok) == Head(tok) = "-" \/ Head(tok) \in {DigitChars[i] : i \in 1..10}

\* the trailing content follows a number with nothing between and is read as
\* more of the number
ContinuesNumber(d, v) ==
    /\ v.kind = "trail"
    /\ v.ws = <<>>
    /\ v.junk # <<>>
    /\ d.k = "leaf"
    /\ IsNumberToken(d.tok)
    /\ Head(v.junk) \in {DigitChars[i] : i \in 1..10} \cup {".", "e", "E"}

\* C1: a document that parses is printed and parsed again without a fatal
\* error, and the second tree has the node types, keys, child order and scalar
\* values of the first.
C1_RoundTrip == pc2 # "none" => (pc2 = "parsed" /\ Shape(root2) = Shape(root))

\* the input holds a fatal condition: a token replaced by one that starts no
\* value, or the text cut short anywhere but behind a digit of a top-level
\* number
FatalInput(d, v) ==
    \/ v.kind = "bad"
    \/ /\ v.kind = "cut"
       /\ ~(/\ d.k = "leaf"
            /\ IsNumberToken(d.tok)
            /\ v.len > 0
            /\ d.tok[v.len] \in {DigitChars[i] : i \in 1..10})

\* C2: on an input with a fatal condition parse() calls the logger's error and
\* returns no tree; '{' followed by the end of input is such an input.
C2_FatalNoTree ==
    /\ (pc # "constructed" /\ FatalInput(doc, variant))
          => (pc = "exited" /\ Exited(parser) /\ root = NoValue)
    /\ (pc # "constructed" /\ parser.in_stream.data = <<"{">>) => Exited(parser)

C2_OpenBraceAtEnd ==
    /\ pc = "exited"
    /\ parser.in_stream.data = <<"{">>
    /\ parser.err = "expected char"
    /\ root = NoValue

\* the names of a sequence, each once, in the order of their first occurrence
RECURSIVE FirstOccurrences(_)
FirstOccurrences(names) ==
    IF names = <<>> THEN <<>>
    ELSE IF \E i \in 1..(Len(names) - 1) : names[i] = names[Len(names)]
    THEN FirstOccurrences(SubSeq(names, 1, Len(names) - 1))
    ELSE Append(FirstOccurrences(SubSeq(names, 1, Len(names) - 1)), names[Len(names)])

\* where name first stands in names
FirstIndex(names, name) ==
    CHOOSE i \in 1..Len(names) :
        names[i] = name /\ \A j \in 1..(i - 1) : names[j] # name

MemberNamesOf(ms) == [i \in 1..Len(ms) |-> ms[i].name]

\* the object is what the first occurrence of every name made it, and every
\* other member was answered by one warning
KeepsFirst ==
    /\ root.names_in_order = FirstOccurrences(MemberNamesOf(members))
    /\ DOMAIN root.values = {members[i].name : i \in 1..Len(members)}
    /\ \A n \in DOMAIN root.values :
          root.values[n] = members[FirstIndex(MemberNamesOf(members), n)].val
    /\ size(root) = Len(FirstOccurrences(MemberNamesOf(members)))
    /\ Len(parser.warns) = Len(members) - size(root)

\* a member whose name the object holds changes nothing and is warned of once
DuplicateLeavesUnchanged ==
    members'[Len(members')].name \in DOMAIN root.values
       => (root' = root /\ parser'.warns = Append(parser.warns, "duplicate key"))

\* C3: a member whose key is already present leaves the object unchanged and
\* emits exactly one warning; every key maps to the value of its first
\* occurrence.
C3_DuplicateKeepsFirst ==
    [][members' # members => (DuplicateLeavesUnchanged /\ KeepsFirst')]_vars

C3_SameKeyTwice ==
    /\ members = <<[name |-> <<"a">>, val |-> NumberNode(1)],
                   [name |-> <<"a">>, val |-> NumberNode(2)]>>
    /\ size(root) = 1
    /\ root.values[<<"a">>] = NumberNode(1)
    /\ parser.warns = <<"duplicate key">>

\* what a path of operator[] arguments leads to in the document as written
Absent == [k |-> "absent"]

\* the characters of a key written without escapes
KeyText(tok) == SubSeq(tok, 2, Len(tok) - 1)

DocKeys(d) == [i \in 1..Len(d.members) |-> KeyText(d.members[i].key)]

DocStep(d, s) ==
    IF d.k = "arr" /\ s.k = "pos" /\ s.i < Len(d.items) THEN d.items[s.i + 1]
    ELSE IF d.k = "obj" /\ s.k = "key" /\ (\E i \in 1..Len(d.members) : DocKeys(d)[i] = s.n)
    THEN d.members[FirstIndex(DocKeys(d), s.n)].val
    ELSE IF d.k = "obj" /\ s.k = "pos" /\ s.i < Len(FirstOccurrences(DocKeys(d)))
    THEN d.members[FirstIndex(DocKeys(d), FirstOccurrences(DocKeys(d))[s.i + 1])].val
    ELSE Absent

RECURSIVE Resolve(_, _)
Resolve(d, p) ==
    IF p = <<>> THEN d
    ELSE DocStep(Resolve(d, SubSeq(p, 1, Len(p) - 1)), p[Len(p)])

\* C4: an index on a leaf or on None, a key on an array, a position out of
\* range, an absent key: each returns the None sentinel, and so does every
\* further index of the chain.
C4_AbsentIsNone ==
    (pc = "parsed" /\ Resolve(doc, path) = Absent) => ref = default_json_none

C4_AbsentPathChain ==
    /\ pc = "parsed"
    /\ doc.k = "obj"
    /\ path = <<Key(<<"x">>), Key(<<"y">>), Pos(5)>>
    /\ ref = default_json_none

\* node is the node of document d: its type, and its value or size
Agrees(node, d) ==
    IF d.k = "leaf" THEN Shape(node) = Shape(value(NewParser(d.tok)).v)
    ELSE IF d.k = "arr" THEN node.type = "Array" /\ size(node) = Len(d.items)
    ELSE node.type = "Object" /\ size(node) = Len(FirstOccurrences(DocKeys(d)))

ChildOrder(node, d) ==
    /\ Agrees(node, d)
    /\ d.k = "arr" =>
          \A i \in 0..(Len(d.items) - 1) : Agrees(IndexByPosition(node, i), d.items[i + 1])
    /\ d.k = "obj" =>
          \A i \in 0..(Len(FirstOccurrences(DocKeys(d))) - 1) :
             /\ IndexByPosition(node, i) = IndexByKey(node, FirstOccurrences(DocKeys(d))[i + 1])
             /\ Agrees(IndexByPosition(node, i), DocStep(d, Pos(i)))

\* C5: position i of a parsed array returns the i-th value of the document;
\* position i of a parsed object returns the value of the i-th distinct key in
\* the order of first insertion, the node that lookup by that key returns.
C5_ChildOrder ==
    (pc = "parsed" /\ Resolve(doc, path) # Absent) => ChildOrder(ref, Resolve(doc, path))

C5_RepeatedKeyThenNew ==
    /\ pc = "parsed"
    /\ path = <<>>
    /\ doc = Obj(<<Member(KeyB, Leaf(<<"1">>)), Member(KeyB, Leaf(<<"2">>)),
                   Member(KeyA, Leaf(<<"2">>))>>)
    /\ size(ref) = 2
    /\ IndexByPosition(ref, 1) = IndexByKey(ref, <<"a">>)
    /\ IndexByPosition(ref, 0).value = DoubleOf(1)

\* how a string token's escape at character c is treated
EscapeKind(c) ==
    IF c \in {BSLASH, "/", QUOTE, "b", "f", "n", "r", "t"} THEN "known"
    ELSE IF c = "u" THEN "unicode"
    ELSE "unknown"

\* the escapes of one kind written in token tok from its i-th character on
RECURSIVE EscapesFrom(_, _, _)
EscapesFrom(tok, i, kind) ==
    IF i >= Len(tok) THEN 0
    ELSE IF tok[i] = BSLASH
    THEN (IF EscapeKind(tok[i + 1]) = kind THEN 1 ELSE 0) + EscapesFrom(tok, i + 2, kind)
    ELSE EscapesFrom(tok, i + 1, kind)

\* the escapes of one kind written in the tokens toks from the j-th on
RECURSIVE EscapesIn(_, _, _)
EscapesIn(toks, j, kind) ==
    IF j > Len(toks) THEN 0
    ELSE EscapesFrom(toks[j], 1, kind) + EscapesIn(toks, j + 1, kind)

Escapes(d, kind) == EscapesIn(Tokens(d), 1, kind)

\* the members of document d, at any depth, whose key an earlier member of the
\* same object has (a key of the documents is written in one way only)
RECURSIVE DuplicateKeys(_), DuplicateKeysOfItems(_, _), DuplicateKeysOfMembers(_, _)
DuplicateKeys(d) ==
    IF d.k = "arr" THEN DuplicateKeysOfItems(d.items, 1)
    ELSE IF d.k = "obj" THEN DuplicateKeysOfMembers(d.members, 1)
    ELSE 0

DuplicateKeysOfItems(items, i) ==
    IF i > Len(items) THEN 0
    ELSE DuplicateKeys(items[i]) + DuplicateKeysOfItems(items, i + 1)

DuplicateKeysOfMembers(ms, i) ==
    IF i > Len(ms) THEN 0
    ELSE (IF \E j \in 1..(i - 1) : ms[j].key = ms[i].key THEN 1 ELSE 0)
           + DuplicateKeys(ms[i].val) + DuplicateKeysOfMembers(ms, i + 1)

TrailingContent(v) == IF v.kind = "trail" /\ v.junk # <<>> THEN 1 ELSE 0

\* a complete document, with whitespace or trailing content or neither, the
\* trailing content not being read as more of a number
CompleteInput(d, v) ==
    v.kind \in {"plain", "ws", "gap", "trail"} /\ ~ContinuesNumber(d, v)

\* parse() went on to the end and returned a tree of the document's type
CompleteTree ==
    /\ pc = "parsed"
    /\ ~Exited(parser)
    /\ root.type = PlainParse(doc).root.type
    /\ root.type \in {"Object", "Array", "String", "Number", "True", "False", "Null"}

\* each duplicate key, unrecognized escape and trailing content is warned of
WarnedByKind ==
    /\ Count(parser.warns, "duplicate key") = DuplicateKeys(doc)
    /\ Count(parser.warns, "invalid escape") = Escapes(doc, "unknown")
    /\ Count(parser.warns, "trailing content") = TrailingContent(variant)

\* C6 (as amended): every duplicate object key, every unrecognized string
\* escape and trailing content after the top-level value is reported through
\* warn, a \uXXXX escape is skipped without a warning, and after each of them
\* parse() returns a complete tree.
C6_RecoverableWarned ==
    (pc # "constructed" /\ CompleteInput(doc, variant)) =>
       /\ CompleteTree
       /\ WarnedByKind
       /\ Len(parser.warns) =
             DuplicateKeys(doc) + Escapes(doc, "unknown") + TrailingContent(variant)

C6_DuplicateKeyAndTrailing ==
    /\ pc = "parsed"
    /\ DuplicateKeys(doc) = 1
    /\ variant.kind = "trail"
    /\ variant.junk = <<"{", "}">>
    /\ parser.warns = <<"duplicate key", "trailing content">>
    /\ root.type = "Object"

\* C6 (as stated): every occurrence of the four recoverable conditions, the
\* \uXXXX escape among them, is reported through warn, and parse() returns a
\* complete tree.
C6_UnicodeWarned ==
    (pc # "constructed" /\ CompleteInput(doc, variant)) =>
       /\ CompleteTree
       /\ WarnedByKind
       /\ Len(parser.warns) =
             DuplicateKeys(doc) + Escapes(doc, "unknown") + Escapes(doc, "unicode")
               + TrailingContent(variant)

\* what parse() does with a document followed by whitespace and then by
\* content, or by nothing
TrailingOutcome ==
    /\ pc = "parsed"
    /\ ~Exited(parser)
    /\ Shape(root) = Shape(PlainParse(doc).root)
    /\ IF variant.junk # <<>>
       THEN /\ parser.warns = Append(PlainParse(doc).p.warns, "trailing content")
            /\ parser.logs = 0
       ELSE /\ parser.warns = PlainParse(doc).p.warns
            /\ parser.logs = 1

C8_WhitespaceInsensitive ==
    (pc # "constructed" /\ variant.kind \in {"ws", "gap"} /\ ~Exited(PlainParse(doc).p))
       => (pc = "parsed" /\ ~Exited(parser) /\ Shape(root) = Shape(PlainParse(doc).root))

C8_AllFourBetweenMembers ==
    /\ pc = "parsed"
    /\ doc.k = "obj"
    /\ Len(doc.members) = 2
    /\ variant.kind = "gap"
    /\ variant.at = 6
    /\ Len(parser.in_stream.data) = Len(Text(doc)) + 4
    /\ size(root) = 2

\* the natural number a sequence of digits writes
RECURSIVE NatOf(_)
NatOf(ds) ==
    IF ds = <<>> THEN 0
    ELSE 10 * NatOf(SubSeq(ds, 1, Len(ds) - 1)) + DigitVal(ds[Len(ds)])

FractionDigits(t) == IF t.frac = <<>> THEN <<>> ELSE Tail(t.frac)

SignedExponent(t) ==
    IF t.exp = <<>> THEN 0
    ELSE IF t.exp[2] = "-" THEN 0 - NatOf(SubSeq(t.exp, 3, Len(t.exp)))
    ELSE IF t.exp[2] = "+" THEN NatOf(SubSeq(t.exp, 3, Len(t.exp)))
    ELSE NatOf(Tail(t.exp))

\* the text is of the form -?(0|[1-9][0-9]*)(\.[0-9]+)?([eE][+-]?[0-9]+)?
WellFormedNumber(t) ==
    /\ t.int # <<>>
    /\ t.frac # <<".">>
    /\ t.exp # <<>> => t.exp[Len(t.exp)] \in {DigitChars[i] : i \in 1..10}

\* sign * M / 10^f * 10^x
StatedValue(t) ==
    DoubleNorm([neg |-> t.sign = <<"-">>,
                m |-> NatOf(t.int \o FractionDigits(t)),
                e |-> SignedExponent(t) - Len(FractionDigits(t)),
                den |-> U64One])

\* a and b are one real number
SameReal(a, b) ==
    /\ a.m = b.m
    /\ a.e = b.e
    /\ a.den = b.den
    /\ a.m = 0 \/ a.neg = b.neg

\* C9: on every text of the form -?(0|[1-9][0-9]*)(\.[0-9]+)?([eE][+-]?[0-9]+)?
\* number() yields sign * M / 10^f * 10^x: M the integer and fractional digits
\* as one integer, f the count of fractional digits, x the signed exponent.
C9_NumberValue ==
    (pc # "constructed" /\ WellFormedNumber(doc)) =>
       (pc = "parsed" /\ root.type = "Number" /\ SameReal(root.value, StatedValue(doc)))

\* a digit the grammar requires is missing
MissingDigit(t) ==
    \/ t.int = <<>>
    \/ t.frac = <<".">>
    \/ t.exp # <<>> /\ t.exp[Len(t.exp)] \notin {DigitChars[i] : i \in 1..10}

\* the first digit missing decides the error
MissingDigitError(t) ==
    IF t.int = <<>> THEN "expected digit"
    ELSE IF t.frac = <<".">> THEN "expected digit after decimal point"
    ELSE "expected digit in exponent"

\* C10: number() calls error() on a '-' not followed by a digit, on a '.' not
\* followed by a digit, and on an 'e' or 'E', with or without a sign, not
\* followed by a digit, whatever stands in the digit's place, the end of input
\* included.
C10_MissingDigitFatal ==
    (pc # "constructed" /\ MissingDigit(doc)) =>
       (pc = "exited" /\ root = NoValue /\ parser.err = MissingDigitError(doc))

C10_SignedExponentAtEnd ==
    /\ pc = "exited"
    /\ doc.int = <<"7">>
    /\ doc.frac = <<>>
    /\ doc.exp = <<"e", "+">>
    /\ variant.junk = <<>>
    /\ parser.err = "expected digit in exponent"

\* the character an escape stands for
EscapedChar ==
    (BSLASH :> BSLASH) @@ ("/" :> "/") @@ (QUOTE :> QUOTE) @@ ("b" :> BS)
      @@ ("f" :> FF) @@ ("n" :> NL) @@ ("r" :> CR) @@ ("t" :> TAB)

IsEscapeItem(item) == Len(item) = 2 /\ item[1] = BSLASH

IsUnicodeItem(item) == Len(item) = 6 /\ item[1] = BSLASH /\ item[2] = "u"

\* what an item adds to the string value
DecodedItem(item) ==
    IF IsEscapeItem(item)
    THEN IF item[2] \in DOMAIN EscapedChar THEN <<EscapedChar[item[2]]>> ELSE <<>>
    ELSE IF IsUnicodeItem(item) THEN <<>>
    ELSE item

RECURSIVE DecodedItems(_, _)
DecodedItems(items, i) ==
    IF i > Len(items) THEN <<>> ELSE DecodedItem(items[i]) \o DecodedItems(items, i + 1)

\* the escapes the switch of string() has no case for
OtherEscapesOf(t) ==
    Cardinality({i \in 1..Len(t.items) :
                    IsEscapeItem(t.items[i]) /\ t.items[i][2] \notin DOMAIN EscapedChar})

\* a literal without \u escapes and without a bare newline that ends with a
\* closing quote
PlainLiteral(t) ==
    /\ t.closed
    /\ \A i \in 1..Len(t.items) : ~IsUnicodeItem(t.items[i]) /\ t.items[i] # <<NL>>

\* C11: of a string literal without \u escapes that ends with a closing quote
\* the value is, in order, every unescaped character and for every escape
\* \\ \/ \" \b \f \n \r \t its one character; an escape with any other
\* character adds nothing and emits one warning.
C11_StringDecoded ==
    (pc # "constructed" /\ PlainLiteral(doc)) =>
       /\ pc = "parsed"
       /\ root.type = "String"
       /\ root.value = DecodedItems(doc.items, 1)
       /\ parser.warns = [i \in 1..OtherEscapesOf(doc) |-> "invalid escape"]

C11_EscapeThenUnknown ==
    /\ pc = "parsed"
    /\ doc.items = <<<<BSLASH, "t">>, <<BSLASH, "q">>>>
    /\ root.value = <<TAB>>
    /\ parser.warns = <<"invalid escape">>

HexDigits ==
    {DigitChars[i] : i \in 1..10}
      \cup {"a", "b", "c", "d", "e", "f", "A", "B", "C", "D", "E", "F"}

\* string() comes to a \u escape of the literal and the literal is closed
UnicodeHandled(t) ==
    /\ t.closed
    /\ \E i \in 1..Len(t.items) : IsUnicodeItem(t.items[i])
    /\ \A i \in 1..Len(t.items) :
          ~IsUnicodeItem(t.items[i]) => (NL \notin {t.items[i][j] : j \in 1..Len(t.items[i])})

\* C12: on a \u escape string() consumes exactly the four characters that
\* follow, those four characters are hexadecimal digits, and no character is
\* added to the value for the escape.
C12_UnicodeFourHexDigits ==
    (pc # "constructed" /\ UnicodeHandled(doc)) =>
       /\ pc = "parsed"
       /\ root.value = DecodedItems(doc.items, 1)
       /\ \A i \in 1..Len(doc.items) :
             IsUnicodeItem(doc.items[i]) => \A j \in 3..6 : doc.items[i][j] \in HexDigits

\* a newline or the end of input stands between the quotes
OpenAtNewlineOrEnd(t) ==
    \/ ~t.closed
    \/ \E i \in 1..Len(t.items) : NL \in {t.items[i][j] : j \in 1..Len(t.items[i])}

\* C13: when a newline or the end of input comes after the opening quote of a
\* string and before its closing quote, string() calls error(); no string
\* value is made from a literal that spans a newline.
C13_NewlineOrEndFatal ==
    (pc # "constructed" /\ OpenAtNewlineOrEnd(doc)) =>
       (pc = "exited" /\ Exited(parser) /\ root = NoValue)

\* the first character of a token, EOF for the empty one
FirstChar(tok) == IF tok = <<>> THEN EOF ELSE tok[1]

\* the node type of the production a first character selects, "none" when it
\* selects none
ProductionOf(c) ==
    IF c = "{" THEN "Object"
    ELSE IF c = "[" THEN "Array"
    ELSE IF c = QUOTE THEN "String"
    ELSE IF c = "t" THEN "True"
    ELSE IF c = "f" THEN "False"
    ELSE IF c = "n" THEN "Null"
    ELSE IF c = "-" \/ c \in {DigitChars[i] : i \in 1..10} THEN "Number"
    ELSE "none"

\* the error a production ends with on the tokens that break off
ProductionError(type) ==
    IF type \in {"Object", "Array", "String"} THEN "expected char"
    ELSE IF type \in {"True", "False", "Null"} THEN "invalid literal"
    ELSE "expected digit"

\* C14: value() dispatches on the first non-whitespace character: '{' to
\* object, '[' to array, '"' to string, 't' to true, 'f' to false, 'n' to
\* null, a digit or '-' to number; on every other first character, the end of
\* input included, it calls error().
C14_ValueDispatch ==
    pc # "constructed" =>
       IF ProductionOf(FirstChar(doc.tok)) = "none"
       THEN pc = "exited" /\ parser.err = "expected value" /\ root = NoValue
       ELSE /\ doc.tok \in CompleteTokens => pc = "parsed"
            /\ pc = "parsed" => root.type = ProductionOf(FirstChar(doc.tok))
            /\ pc = "exited" =>
                  parser.err = ProductionError(ProductionOf(FirstChar(doc.tok)))

C14_EndOfInputAfterWhitespace ==
    /\ pc = "exited"
    /\ doc.tok = <<>>
    /\ variant.ws = <<CR, NL, " ">>
    /\ parser.err = "expected value"
    /\ root = NoValue

\* the text begins with the literal, character for character
BeginsWithLiteral(t) ==
    Len(t.text) >= Len(t.lit) /\ SubSeq(t.text, 1, Len(t.lit)) = t.lit

LiteralType(lit) ==
    IF lit = <<"t", "r", "u", "e">> THEN "True"
    ELSE IF lit = <<"f", "a", "l", "s", "e">> THEN "False"
    ELSE "Null"

\* C15: true_(), false_() and null() succeed exactly when the next characters
\* are "true", "false" and "null"; when a character differs (another case,
\* another character, a newline, the end of input) error() is called and no
\* node is returned.
C15_LiteralExact ==
    pc # "constructed" =>
       IF BeginsWithLiteral(doc)
       THEN pc = "parsed" /\ ~Exited(parser) /\ root.type = LiteralType(doc.lit)
       ELSE pc = "exited" /\ parser.err = "invalid literal" /\ root = NoValue

C15_NullCutShort ==
    /\ pc = "exited"
    /\ doc.lit = <<"n", "u", "l", "l">>
    /\ doc.text = <<"n", "u", "l">>
    /\ parser.err = "invalid literal"
    /\ root = NoValue

\* C16: when parse() has returned and the Json it returned has been
\* destroyed, every node allocated during the parse has been freed exactly
\* once: none is leaked, none freed twice, the values of duplicate keys and
\* the string nodes of object keys included.
C16_EveryNodeFreedOnce ==
    pc = "destroyed" =>
       /\ \A i \in 1..Len(parser.news) : Count(parser.deletes, parser.news[i]) = 1
       /\ \A j \in 1..Len(parser.deletes) : Count(parser.news, parser.deletes[j]) = 1

\* the size of what a path leads to in the document as written
ExpectedSize(d) ==
    IF d.k = "arr" THEN Len(d.items)
    ELSE IF d.k = "obj" THEN Len(FirstOccurrences(DocKeys(d)))
    ELSE 1

\* C17: size() returns the number of direct children of an Object (its
\* distinct keys) and of an Array (its elements, 0 when empty), and 1 for
\* every String, Number, True, False, Null and for None.
C17_Size ==
    pc = "parsed" => size(ref) = ExpectedSize(Resolve(doc, path))

C17_RepeatedKeyCountedOnce ==
    /\ pc = "parsed"
    /\ path = <<>>
    /\ doc = Obj(<<Member(KeyA, Leaf(<<"1">>)), Member(KeyA, Leaf(<<"2">>)),
                   Member(KeyB, Leaf(<<"1">>))>>)
    /\ size(ref) = 2
    /\ size(IndexByKey(ref, <<"x">>)) = 1
    /\ size(IndexByPosition(ref, 0)) = 1

\* C19: no sequence of queries on a parsed tree (index by position, index by
\* key, size, get_type, print), lookups of absent keys and of positions out of
\* range included, changes the tree: every object's keys, key order and size
\* and every node's value stay what they were.
C19_QueriesLeaveTree ==
    [][pc = "parsed" => root' = root]_vars

C19_QueriedAndPrinted ==
    /\ pc = "parsed"
    /\ doc.k = "obj"
    /\ path = <<Key(<<"x">>), Pos(5), Key(<<"a">>)>>
    /\ printed # <<>>
    /\ root = PlainParse(doc).root

\* the children a loop over i in 0..size()-1 visits
Visited(node) == [i \in 1..size(node) |-> IndexByPosition(node, i - 1)]

\* C20: for an Object or Array v, v[i] is a child other than None exactly
\* when i < v.size(): a loop over i in 0..size()-1 visits every direct child
\* once and never receives None.
C20_InRangeIffChild ==
    (pc = "parsed" /\ ref.type \in {"Object", "Array"}) =>
       /\ \A i \in 0..(MaxQueryElems + 2) :
             (IndexByPosition(ref, i).type # "None") <=> (i < size(ref))
       /\ Len(Visited(ref)) = ExpectedSize(Resolve(doc, path))
       /\ \A i \in 1..size(ref) :
             /\ Visited(ref)[i].type # "None"
             /\ Agrees(Visited(ref)[i], DocStep(Resolve(doc, path), Pos(i - 1)))
             /\ \A j \in 1..size(ref) : Visited(ref)[i] = Visited(ref)[j] => i = j

C20_LoopOverDistinctKeys ==
    /\ pc = "parsed"
    /\ path = <<>>
    /\ doc = Obj(<<Member(KeyB, Leaf(<<"1">>)), Member(KeyA, Leaf(<<"2">>)),
                   Member(KeyB, Leaf(<<"2">>))>>)
    /\ size(ref) = 2
    /\ IndexByPosition(ref, 1).type = "Number"
    /\ IndexByPosition(ref, 2) = default_json_none

\* the lines of the rendering of a node at depth d, the first without its
\* indentation (the parent writes it), the others as they stand in the output
Spaces(n) == [i \in 1..n |-> " "]

Prefixed(lines, pre) == [lines EXCEPT ![1] = pre \o @]

Suffixed(lines, suf) == [lines EXCEPT ![Len(lines)] = @ \o suf]

ChildOf(node, i) ==
    IF node.type = "Object" THEN node.values[node.names_in_order[i]] ELSE node.values[i]

\* the quoted key and ": " before the child of an object
ChildPrefix(node, i) ==
    IF node.type = "Object"
    THEN <<QUOTE>> \o node.names_in_order[i] \o <<QUOTE, ":", " ">>
    ELSE <<>>

RECURSIVE Lines(_, _), ChildLines(_, _, _)

ChildLines(node, i, d) ==
    IF i > size(node) THEN <<>>
    ELSE Suffixed(Prefixed(Lines(ChildOf(node, i), d + 1),
                           Spaces(2 * (d + 1)) \o ChildPrefix(node, i)),
                  IF i < size(node) THEN <<",">> ELSE <<>>)
           \o ChildLines(node, i + 1, d)

Lines(node, d) ==
    IF node.type = "Object"
    THEN <<(<<"{">>)>> \o ChildLines(node, 1, d) \o <<(Spaces(2 * d) \o <<"}">>)>>
    ELSE IF node.type = "Array"
    THEN <<(<<"[">>)>> \o ChildLines(node, 1, d) \o <<(Spaces(2 * d) \o <<"]">>)>>
    ELSE <<print(node, d)>>

\* every line followed by a newline
RECURSIVE Joined(_)
Joined(lines) ==
    IF lines = <<>> THEN <<>> ELSE Head(lines) \o <<NL>> \o Joined(Tail(lines))

\* C18: an Object or Array at depth d is printed as its opening bracket and a
\* newline, every child on a line of its own indented by 2*(d+1) spaces (the
\* child of an object behind its quoted key and ": "), a comma at the end of
\* the line of every child but the last, and the closing bracket indented by
\* 2*d spaces; Json::print ends the output with exactly one newline.
C18_PrintLayout ==
    (pc = "parsed" /\ printed # <<>>) =>
       /\ printed = Joined(Lines(root, 0))
       /\ printed[Len(printed)] = NL
       /\ Len(printed) > 1 /\ printed[Len(printed) - 1] # NL

C18_NestedAndEmpty ==
    /\ pc = "parsed"
    /\ doc = Obj(<<Member(KeyA, Arr(<<Leaf(<<"1">>), Leaf(<<"2">>)>>)),
                   Member(KeyB, Arr(<<>>))>>)
    /\ printed = <<"{", NL>>
                   \o <<" ", " ", QUOTE, "a", QUOTE, ":", " ", "[", NL>>
                   \o <<" ", " ", " ", " ", "1", ",", NL>>
                   \o <<" ", " ", " ", " ", "2", NL>>
                   \o <<" ", " ", "]", ",", NL>>
                   \o <<" ", " ", QUOTE, "b", QUOTE, ":", " ", "[", NL>>
                   \o <<" ", " ", "]", NL>>
                   \o <<"}", NL>>

\* u divided by ten and the remainder, limb by limb from the most significant
U64DivMod10(u) ==
    LET c4 == u[4]
        c3 == (c4 % 10) * 65536 + u[3]
        c2 == (c3 % 10) * 65536 + u[2]
        c1 == (c2 % 10) * 65536 + u[1]
    IN [q |-> <<c1 \div 10, c2 \div 10, c3 \div 10, c4 \div 10>>, r |-> c1 % 10]

\* u is ten to the k: k exact divisions by ten lead to one
RECURSIVE IsTenToThe(_, _)
IsTenToThe(u, k) ==
    IF k = 0 THEN u = U64One
    ELSE U64DivMod10(u).r = 0 /\ IsTenToThe(U64DivMod10(u).q, k - 1)

\* frac_size after the loop of number() over the digits of the fractional part
FracSizeOf(t) == number_digits(NewParser(Tail(t.frac)), ".", 0, U64One, TRUE).frac_size

\* C30: for a number with k >= 1 fractional digits the divisor number()
\* applies to the magnitude is 10^k and is not zero.
C30_DivisorTenToTheK ==
    (pc = "parsed" /\ doc.k = "number" /\ Len(doc.frac) >= 2) =>
       /\ IsTenToThe(FracSizeOf(doc), Len(doc.frac) - 1)
       /\ FracSizeOf(doc) # U64Zero

\* the member or element is followed by a comma
CommaBehind(seps, i) == Head(seps[i]) = ","

\* a comma stands behind every member but the last and none behind the last
CommasBetween(seps) == \A i \in 1..Len(seps) : CommaBehind(seps, i) <=> i < Len(seps)

\* the object or array of the text, with every member of it
AllMembersParsed ==
    /\ pc = "parsed"
    /\ root.type = (IF variant.open = "{" THEN "Object" ELSE "Array")
    /\ size(root) = Len(variant.seps)
    /\ \A i \in 1..Len(variant.seps) : IndexByPosition(root, i - 1).type = "Number"

\* C25 as stated: object() accepts '{' (ws key ws ':' value (',')?)* '}' and
\* array() accepts '[' (value (',')?)* ']'; the comma behind a member is
\* optional, so members separated by whitespace alone and a comma behind the
\* last member parse to a tree without a fatal error.
C25_CommaOptional ==
    (pc # "constructed" /\ variant.kind = "separated") => AllMembersParsed

\* C25: object() accepts '{' ws '}' and '{' member (',' member)* '}', array()
\* likewise: a comma is required between two members and none may follow the
\* last; members separated by whitespace alone and a comma behind the last
\* member are fatal errors and return no node.
C25_CommaRequired ==
    (pc # "constructed" /\ variant.kind = "separated") =>
       IF CommasBetween(variant.seps) THEN AllMembersParsed
       ELSE /\ pc = "exited"
            /\ parser.err \in {"expected char", "expected value"}
            /\ root = NoValue

C25_WhitespaceAloneIsFatal ==
    /\ pc = "exited"
    /\ variant.kind = "separated"
    /\ variant.open = "{"
    /\ variant.seps = << <<" ">>, <<NL>> >>
    /\ parser.err = "expected char"

\* where character i of the text stands: its line, and the characters of
\* that line before it
LineOf(data, i) == 1 + Cardinality({j \in 1..(i - 1) : data[j] = NL})

RECURSIVE ColumnBefore(_, _)
ColumnBefore(data, i) ==
    IF i = 1 \/ data[i - 1] = NL THEN 0 ELSE 1 + ColumnBefore(data, i - 1)

\* what the last get_char or unget_char left behind
LastTraced(p) == p.trace[Len(p.trace)]

\* the process exited on an error reported against the character get_char
\* returned last, and that character is a newline
ErrorAtNewline ==
    /\ pc = "exited"
    /\ parser.err \in {"expected char", "expected digit", "expected digit in exponent",
                       "invalid literal"}
    /\ parser.trace # <<>>
    /\ LastTraced(parser).op = "get"
    /\ LastTraced(parser).c = NL

\* C28: a fatal error reported against a newline (by match_char, number and
\* match_string alike) names the end of the line the newline ends: that line's
\* number and its length, never column zero of the line after it.
C28_ErrorAtEndOfLine ==
    ErrorAtNewline =>
       /\ parser.cursor.line_no = LineOf(parser.in_stream.data, Consumed(parser))
       /\ parser.cursor.char_no = ColumnBefore(parser.in_stream.data, Consumed(parser))

\* the characters taken in for good when snapshot s was made
ConsumedAt(s) ==
    s.pos - Cardinality({i \in 1..Len(s.unget_queue) : s.unget_queue[i] # EOF})

\* line and column are those of the position behind the characters taken in
LineAndColumn(data, s) ==
    /\ s.cursor.line_no = 1 + Cardinality({j \in 1..ConsumedAt(s) : data[j] = NL})
    /\ s.cursor.char_no = ColumnBefore(data, ConsumedAt(s) + 1)
    /\ s.cursor.line_no >= 1
    /\ s.cursor.char_no >= 0

\* the last newline among the first n characters (0 when there is none)
RECURSIVE LastNewline(_, _)
LastNewline(data, n) ==
    IF n = 0 \/ data[n] = NL THEN n ELSE LastNewline(data, n - 1)

\* prev_line_len is the length of the line ended by the last newline taken in
PrevLineOfConsumed(data, s) ==
    LastNewline(data, ConsumedAt(s)) # 0 =>
       s.cursor.prev_line_len = ColumnBefore(data, LastNewline(data, ConsumedAt(s)))

\* prev_line_len is the length of the line ended by the newline get_char
\* returned last, taken in for good or only peeked at: get_char sets it when
\* it returns a newline, and nothing else changes it
PrevLineOfReturned(p, i) ==
    IF p.trace[i].op = "get" /\ p.trace[i].c = NL
    THEN p.trace[i].cursor.prev_line_len =
            ColumnBefore(p.in_stream.data, ConsumedAt(p.trace[i]))
    ELSE p.trace[i].cursor.prev_line_len =
            (IF i = 1 THEN 0 ELSE p.trace[i - 1].cursor.prev_line_len)

\* C23 as stated: in every state of a parse before the end of input has been
\* returned, with p the characters net consumed, line is 1 plus the newlines
\* among the first p characters, column the characters after the last of them,
\* and the remembered previous-line length the length of the line ended by the
\* last consumed newline; line is never below 1 and column never underflows.
C23_PositionOfConsumed ==
    \A i \in 1..Len(parser.trace) :
       ~parser.trace[i].ended =>
          /\ LineAndColumn(parser.in_stream.data, parser.trace[i])
          /\ PrevLineOfConsumed(parser.in_stream.data, parser.trace[i])

\* C23: in every state of a parse before the end of input has been returned,
\* line and column are those of the position behind the characters net
\* consumed, line is at least 1 and column does not underflow; the remembered
\* previous-line length is the length of the line ended by the newline
\* get_char returned last, consumed or only peeked at.
C23_PositionOfReturned ==
    \A i \in 1..Len(parser.trace) :
       ~parser.trace[i].ended =>
          /\ LineAndColumn(parser.in_stream.data, parser.trace[i])
          /\ PrevLineOfReturned(parser, i)

\* a newline was peeked at on a line longer than the one before it
C23_NewlinePeekedOnLongerLine ==
    /\ pc = "parsed"
    /\ \E i \in 1..Len(parser.trace) :
          /\ ~parser.trace[i].ended
          /\ parser.trace[i].op = "unget"
          /\ parser.trace[i].c = NL
          /\ parser.trace[i].cursor.line_no = 2
          /\ parser.trace[i].cursor.char_no = 3
          /\ parser.trace[i].cursor.prev_line_len = 3
          /\ ColumnBefore(parser.in_stream.data,
                          LastNewline(parser.in_stream.data, ConsumedAt(parser.trace[i]))) = 1

\* C24: in every state of parse() the pushback queue holds at most one
\* character, and a byte is read from the stream only when the queue is empty.
C24_QueueAtMostOne ==
    \A i \in 1..Len(parser.trace) :
       /\ Len(parser.trace[i].unget_queue) <= 1
       /\ (parser.trace[i].op = "get" /\ parser.trace[i].src = "stream")
             => parser.trace[i].unget_queue = <<>>

C24_PeekedThenRead ==
    /\ pc = "parsed"
    /\ \E i \in 2..Len(parser.trace) :
          /\ parser.trace[i - 1].unget_queue = <<",">>
          /\ parser.trace[i].op = "get"
          /\ parser.trace[i].src = "queue"
          /\ parser.trace[i].unget_queue = <<>>
    /\ \E i \in 1..Len(parser.trace) :
          parser.trace[i].unget_queue = <<EOF>>

\* the lines of a text: its newlines, and one more when it does not end with one
LinesOf(data) ==
    Cardinality({j \in 1..Len(data) : data[j] = NL})
      + (IF data[Len(data)] = NL THEN 0 ELSE 1)

\* C29: when a parse completes with no trailing content, the line count of the
\* success message is the number of lines of the input: its newlines, plus one
\* when it does not end with a newline.
C29_LinesRead ==
    (pc = "parsed" /\ parser.logs = 1) =>
       parser.cursor.line_no = LinesOf(parser.in_stream.data)

C29_EndsWithNewline ==
    /\ pc = "parsed"
    /\ parser.logs = 1
    /\ parser.in_stream.data[Len(parser.in_stream.data)] = NL
    /\ parser.cursor.line_no = 2
    /\ Cardinality({i \in 1..Len(parser.trace) : parser.trace[i].c = EOF}) >= 3

\* the node type a production returns
TypeOfProduction ==
    [object |-> "Object", array |-> "Array", string |-> "String", number |-> "Number",
     true_ |-> "True", false_ |-> "False", null |-> "Null"]

\* the characters are one whole token of the production: value() called on
\* them alone returns a node of its type and leaves none of them unread
WholeToken(prod, text, parsed) ==
    /\ ~Exited(parsed.p)
    /\ parsed.v.type = TypeOfProduction[prod]
    /\ Consumed(parsed.p) = Len(text)
    /\ ~is_whitespace(text[1])
    /\ ~is_whitespace(text[Len(text)])

Holds(text, chars) == \E i \in 1..Len(text) : text[i] \in chars

\* the character c goes on with the number written so far, by the grammar
\* -?(0|[1-9][0-9]*)(\.[0-9]+)?([eE][+-]?[0-9]+)?
NumberGoesOn(text, c) ==
    \/ is_digit(c) /\ text \notin {<<"0">>, <<"-", "0">>}
    \/ c = "." /\ ~Holds(text, {".", "e", "E"})
    \/ c \in {"e", "E"} /\ ~Holds(text, {"e", "E"})

\* what production r.prod had taken in when it returned is its token, no
\* character less and none more
ReturnedItsToken(data, r) ==
    /\ r.from < r.to
    /\ WholeToken(r.prod, SubSeq(data, r.from + 1, r.to),
                  value(NewParser(SubSeq(data, r.from + 1, r.to))))
    /\ (r.prod = "number" /\ r.to < Len(data))
          => ~NumberGoesOn(SubSeq(data, r.from + 1, r.to), data[r.to + 1])

\* C26: on return from object(), array(), string(), number(), true_(),
\* false_() and null() the characters net consumed since entry are exactly the
\* characters of the production's token: no whitespace and no character behind
\* the token has been consumed.
C26_ExactlyTheToken ==
    \A i \in 1..Len(parser.returns) :
       ReturnedItsToken(parser.in_stream.data, parser.returns[i])

C26_TokensAmongWhitespace ==
    /\ pc = "parsed"
    /\ variant.kind = "ws"
    /\ \E i \in 1..Len(parser.returns) :
          /\ parser.returns[i].prod = "number"
          /\ is_whitespace(parser.in_stream.data[parser.returns[i].to + 1])
    /\ \E i \in 1..Len(parser.returns) :
          /\ parser.returns[i].prod = "object"
          /\ parser.returns[i].to - parser.returns[i].from > 2
          /\ is_whitespace(parser.in_stream.data[parser.returns[i].from])
          /\ is_whitespace(parser.in_stream.data[parser.returns[i].to + 1])
    /\ \E i \in 1..Len(parser.returns) :
          /\ parser.returns[i].prod = "array"
          /\ root.type = "Array"
          /\ parser.returns[i].from > 0

\* the children of a node in their order
ChildrenOf(node) ==
    IF node.type = "Object"
    THEN [i \in 1..Len(node.names_in_order) |-> node.values[node.names_in_order[i]]]
    ELSE IF node.type = "Array" THEN node.values
    ELSE <<>>

\* the characters a value of the type begins with
FirstChars(type) ==
    CASE type = "Object" -> {"{"}
      [] type = "Array" -> {"["}
      [] type = "String" -> {QUOTE}
      [] type = "Number" -> {"-"} \cup {DigitChars[i] : i \in 1..10}
      [] type = "True" -> {"t"}
      [] type = "False" -> {"f"}
      [] type = "Null" -> {"n"}

\* character i of the text stands in the line and column the node records
StandsAt(data, i, node) ==
    /\ node.line_no = LineOf(data, i)
    /\ node.char_no = ColumnBefore(data, i) + 1

\* the character of the text the node points at
PointedAt(data, node) == CHOOSE i \in 1..Len(data) : StandsAt(data, i, node)

\* the node and all nodes below it point at a character a value of their type
\* begins with, the children behind their parent and one behind the other
RECURSIVE PointsAtValues(_, _)
PointsAtValues(data, node) ==
    /\ \E i \in 1..Len(data) : StandsAt(data, i, node)
    /\ data[PointedAt(data, node)] \in FirstChars(node.type)
    /\ \A k \in 1..Len(ChildrenOf(node)) :
          /\ PointsAtValues(data, ChildrenOf(node)[k])
          /\ PointedAt(data, node) < PointedAt(data, ChildrenOf(node)[k])
          /\ k > 1 => PointedAt(data, ChildrenOf(node)[k - 1])
                         < PointedAt(data, ChildrenOf(node)[k])

\* C27: every node the parser produces records the line and the 1-based column
\* of the first character of its value in the text ('{', '[', the opening
\* quote, the first character of a number or literal), wherever the value
\* stands, directly behind a newline included.
C27_NodePositions ==
    pc = "parsed" => PointsAtValues(parser.in_stream.data, root)

C27_ValuesBehindNewlines ==
    /\ pc = "parsed"
    /\ variant = [kind |-> "ws", run |-> <<NL>>]
    /\ root.type = "Array"
    /\ Len(root.values) = 2
    /\ root.line_no = 2 /\ root.char_no = 1
    /\ root.values[1].type = "Object"
    /\ root.values[1].line_no = 3 /\ root.values[1].char_no = 1
    /\ root.values[2].type = "Number"
    /\ root.values[2].char_no = 1

\* the characters the next k calls of get_char return
RECURSIVE Upcoming(_, _)
Upcoming(p, k) ==
    IF k = 0 THEN <<>> ELSE <<get_char(p).c>> \o Upcoming(get_char(p).p, k - 1)

\* C21: for every n >= 1 and every state of the cursor, a pending queue that
\* is not empty included, the get_char calls after peek_char(n) return the
\* characters they would have returned without it, in the same order.
C21_PeekKeepsOrder ==
    doc.k = "stream" =>
       \A n \in 1..MaxPeek :
          Upcoming(peek_char(parser, n).p, MaxStream + 1) = Upcoming(parser, MaxStream + 1)

\* line and column of the two parsers are the same
SamePosition(p, q) ==
    /\ p.cursor.line_no = q.cursor.line_no
    /\ p.cursor.char_no = q.cursor.char_no

\* C22: get_char followed by unget_char of the character it returned (a
\* newline, the end of input, any other character) restores line and column;
\* so peek_char(n) leaves line and column unchanged for every n >= 1, at the
\* end of input on line 1 column 0 and across a newline included.
C22_PeekRestoresPosition ==
    doc.k = "stream" =>
       /\ SamePosition(unget_char(get_char(parser).p, get_char(parser).c), parser)
       /\ \A n \in 1..MaxPeek : SamePosition(peek_char(parser, n).p, parser)

\* the bytes read from the stream before entry i of the trace
ReadBefore(p, i) == IF i = 1 THEN 0 ELSE p.trace[i - 1].pos

\* C31: get_char returns the end-of-input marker exactly when the source is
\* exhausted: no byte 0..255 read from the source is reported as the end of
\* input.
C31_EndOnlyWhenExhausted ==
    doc.k = "stream" =>
       \A i \in 1..Len(parser.trace) :
          (parser.trace[i].op = "get" /\ parser.trace[i].src = "stream") =>
             (parser.trace[i].c = EOF
                <=> ReadBefore(parser, i) = Len(parser.in_stream.data))

\* parse() has returned a tree, or the logger's error has been called
Terminated ==
    \/ pc = "parsed" /\ ~Exited(parser) /\ root # NoValue
    \/ pc = "exited" /\ Exited(parser) /\ root = NoValue

\* how often get_char has returned the end of input
EndReturns(p) ==
    Cardinality({i \in 1..Len(p.trace) : p.trace[i].op = "get" /\ p.trace[i].c = EOF})

\* C32: on every finite input parse() terminates: it returns a tree or calls
\* the logger's error; no loop of ws, string, number, object or array runs
\* forever, at the end of input included, where get_char returns the
\* end-of-input marker again and again.
C32_ParseTerminates == <>Terminated

C32_EndReturnedAgain ==
    /\ pc = "exited"
    /\ variant.kind = "prefix"
    /\ doc.k = "obj"
    /\ Len(parser.in_stream.data) > 0
    /\ parser.in_stream.data[Len(parser.in_stream.data)] = "5"
    /\ EndReturns(parser) >= 4
    /\ parser.err = "expected char"

====
